---- MODULE Spec2Model ----
(***************************************************************************)
(* Model of the OpenThread POSIX daemon (src/posix/platform/daemon.cpp):   *)
(* the vendor CLI commands (mfgcmd, seteui64, ccacfg, ...) and the         *)
(* single-session socket server driven by the mainloop.                    *)
(*                                                                         *)
(* Conventions.                                                            *)
(*  - A numeric CLI token is represented by the integer atoi()/strtol()    *)
(*    returns for it; the casts the code applies afterwards ((uint8_t),    *)
(*    (int8_t)) are modelled by ToUint8 / ToInt8.                          *)
(*  - A 12 byte payload is a function on 0..11, as the C array.            *)
(*  - aArgs is a sequence; Arg(aArgs, i) is the C expression aArgs[i].     *)
(*  - Every otCliOutputFormat call appends one item [k, v] to "out".       *)
(***************************************************************************)
EXTENDS Integers, Sequences, FiniteSets, TLC

VARIABLES
    mfgEnable,       \* static uint8_t mfgEnable
    rcp,             \* the RCP's TX power register (half dBm byte)
    txPowerSet,      \* history: the set-TX-power argument that wrote rcp, if one did
    ccaCfg,          \* CCA configuration held by the radio platform
    radio,           \* IR mode, IR threshold and TX power limit held by the radio platform
    last,            \* observation of the last CLI command run
    mListenSocket,   \* Daemon::mListenSocket
    mSessionSocket,  \* Daemon::mSessionSocket
    mDaemonLock,     \* Daemon::mDaemonLock
    alive,           \* FALSE once DieNow()/DieNowWithMessage() ended the process
    ctx,             \* mainloop context of the pending tick (fd sets), or NoCtx
    fdtab,           \* the process's descriptor table
    closes,          \* per accepted connection: number of close() calls that hit it
    nAccepted,       \* number of connections accept() has returned
    badClose,        \* number of close() calls on a descriptor that was not open
    ev,              \* observation of the last daemon operation
    inst,            \* two daemon processes of one interface: where each is in SetUp/TearDown
    lockHolder,      \* the process holding the flock() on the lock file, 0 if none
    sockFile         \* the process whose socket is bound to the socket path, 0 if no file

cliVars == <<mfgEnable, rcp, txPowerSet, ccaCfg, radio, last>>
daemonVars == <<mListenSocket, mSessionSocket, mDaemonLock, alive, ctx, fdtab,
                closes, nAccepted, badClose, ev>>
startVars == <<inst, lockHolder, sockFile>>
vars == <<mfgEnable, rcp, txPowerSet, ccaCfg, radio, last, mListenSocket, mSessionSocket,
          mDaemonLock, alive, ctx, fdtab, closes, nAccepted, badClose, ev,
          inst, lockHolder, sockFile>>

(***************************************************************************)
(* Program constants                                                       *)
(***************************************************************************)
MFG_CMD_ACTION_GET == 0
MFG_CMD_ACTION_SET == 1
MFG_CMD_GET_SET_CHANNEL == 11
MFG_CMD_GET_SET_TXPOWER == 15
MFG_CMD_CONTINUOUS_TX == 17
MFG_CMD_GET_SET_PAYLOAD_SIZE == 20
MFG_CMD_GET_RX_RESULT == 31
MFG_CMD_START_RX_TEST == 32
MFG_CMD_BURST_TX == 33
MFG_CMD_DUTY_CYCLE_TX == 35
MFG_CMD_GET_SET_CCA_THRESHOLD == 47
MFG_CMD_CONTINOUS_CCA_TEST == 49
MFG_CMD_GET_CCA_STATUS == 50
MFG_CMD_CONTINOUS_ED_TEST == 55
MFG_CMD_GET_ED_VALUE == 56
MFG_CMD_PHY_TX_TEST_PSDU == 57
MFG_CMD_PHY_RX_TX_ACK_TEST == 58
MFG_CMD_SET_GENERIC_PARAM == 59
payloadLen == 12

OT_ERROR_NONE == "NONE"
OT_ERROR_FAILED == "FAILED"
OT_ERROR_INVALID_ARGS == "INVALID_ARGS"
OT_ERROR_NOT_IMPLEMENTED == "NOT_IMPLEMENTED"

\* no set-TX-power command has written the RCP's register
NoValue == [set |-> FALSE, v |-> 0]

(***************************************************************************)
(* Integer conversions of the C code                                       *)
(***************************************************************************)
\* (uint8_t)n
ToUint8(n) == n % 256

\* (int8_t)n
ToInt8(n) == IF n % 256 >= 128 THEN (n % 256) - 256 ELSE n % 256

\* (uint16_t)n
ToUint16(n) == n % 65536

\* C integer division a / b for b > 0 (truncates towards zero)
CDiv(a, b) == IF a >= 0 THEN a \div b ELSE -((-a) \div b)

Arg(aArgs, i) == aArgs[i + 1]

\* one otCliOutputFormat call
Item(kind, value) == [k |-> kind, v |-> value]

\* uint8_t payload[12] = {11};
\* variant: the bytes after the header are not cleared
InitPayloadDirty == [i \in 0..11 |-> IF i = 0 THEN 11 ELSE IF i = 11 THEN 170 ELSE 0]

InitPayload == [i \in 0..11 |-> IF i = 0 THEN 11 ELSE 0]

(***************************************************************************)
(* The RCP behind otPlatRadioMfgCommand.  A response r = [len, status,     *)
(* data] is the environment's choice: len is the reported outputLen,       *)
(* status the byte 3 of the response, data the value of the data bytes of  *)
(* a GET other than TX power.  The RCP keeps one register: byte 4 of the   *)
(* last accepted TX power SET frame, returned in byte 4 of a TX power GET. *)
(***************************************************************************)
RcpAccepts(req, r) == r.status = 0 /\ r.len >= 4

RcpStore(req, r, reg) ==
    IF RcpAccepts(req, r) /\ req[1] = MFG_CMD_GET_SET_TXPOWER /\ req[2] = MFG_CMD_ACTION_SET
    THEN req[4] ELSE reg

RcpResponse(req, r, reg) ==
    [i \in 0..11 |->
        IF i >= r.len THEN req[i]
        ELSE IF i = 3 THEN r.status
        ELSE IF i >= 4 /\ req[2] = MFG_CMD_ACTION_GET
             THEN (IF req[1] = MFG_CMD_GET_SET_TXPOWER /\ i = 4 THEN reg
                   ELSE (r.data + (i - 4)) % 256)
        ELSE req[i]]

\* otPlatRadioMfgCommand(aInstance, payload, payloadLen, &outputLen)
otPlatRadioMfgCommand(req, r, reg) ==
    [payload |-> RcpResponse(req, r, reg), outputLen |-> r.len, rcp |-> RcpStore(req, r, reg)]

\* one record per transport call made
Call(req, t) == [req |-> req, rsp |-> t.payload, len |-> t.outputLen]

(***************************************************************************)
(* ProcessMfgGetInt8 / ProcessMfgSetInt8                                   *)
(***************************************************************************)
ProcessMfgGetInt8(cmdId, aArgsLength, r, reg) ==
    IF aArgsLength = 1
    THEN LET req == [InitPayload EXCEPT ![1] = cmdId, ![2] = MFG_CMD_ACTION_GET]
             t == otPlatRadioMfgCommand(req, r, reg)
         IN IF t.outputLen >= 5 /\ t.payload[3] = 0
            THEN [error |-> OT_ERROR_NONE,
                  out |-> <<Item("int", IF cmdId = MFG_CMD_GET_SET_TXPOWER
                                        THEN CDiv(ToInt8(t.payload[4]), 2)
                                        ELSE ToInt8(t.payload[4]))>>,
                  calls |-> <<Call(req, t)>>, rcp |-> t.rcp]
            ELSE [error |-> OT_ERROR_FAILED, out |-> <<>>,
                  calls |-> <<Call(req, t)>>, rcp |-> t.rcp]
    ELSE [error |-> OT_ERROR_INVALID_ARGS, out |-> <<>>, calls |-> <<>>, rcp |-> reg]

\* the range check of ProcessMfgSetInt8 on the int8_t setValue
SetInt8InRange(setValue, min, max) == setValue >= min /\ setValue <= max

\* (mutant) the TX power value is sent in dBm, not doubled
SetInt8EncodeNoShift(cmdId, setValue) == ToUint8(setValue)

\* payload[4] of a SET frame
SetInt8Encode(cmdId, setValue) ==
    IF cmdId = MFG_CMD_GET_SET_TXPOWER
    THEN ToUint8(ToUint8(setValue) * 2)
    ELSE ToUint8(setValue)

ProcessMfgSetInt8(cmdId, aArgsLength, aArgs, min, max, r, reg) ==
    IF aArgsLength = 2 /\ SetInt8InRange(ToInt8(Arg(aArgs, 1)), min, max)
    THEN LET setValue == ToInt8(Arg(aArgs, 1))
             req == [InitPayload EXCEPT ![1] = cmdId, ![2] = MFG_CMD_ACTION_SET,
                                        ![4] = SetInt8Encode(cmdId, setValue)]
             t == otPlatRadioMfgCommand(req, r, reg)
         IN [error |-> IF t.outputLen >= 4 /\ t.payload[3] = 0
                       THEN OT_ERROR_NONE ELSE OT_ERROR_FAILED,
             out |-> <<>>, calls |-> <<Call(req, t)>>, rcp |-> t.rcp]
    ELSE [error |-> OT_ERROR_INVALID_ARGS, out |-> <<>>, calls |-> <<>>, rcp |-> reg]

(***************************************************************************)
(* ProcessMfgCommands                                                      *)
(***************************************************************************)
NoCall(err, reg) == [error |-> err, out |-> <<>>, calls |-> <<>>, rcp |-> reg]

\* a handler branch that sends req and ignores the response
SendIgnoring(req, r, reg) ==
    LET t == otPlatRadioMfgCommand(req, r, reg)
    IN [error |-> OT_ERROR_NONE, out |-> <<>>, calls |-> <<Call(req, t)>>, rcp |-> t.rcp]

\* case MFG_CMD_GET_RX_RESULT
MfgGetRxResult(aArgsLength, r, reg) ==
    IF aArgsLength = 1
    THEN LET req == [InitPayload EXCEPT ![1] = MFG_CMD_GET_RX_RESULT, ![2] = MFG_CMD_ACTION_GET]
             t == otPlatRadioMfgCommand(req, r, reg)
             p == t.payload
         IN IF t.outputLen >= 11
            THEN [error |-> OT_ERROR_NONE,
                  out |-> <<Item("status", p[4]),
                            Item("rx_pkt_count", p[5] + 256 * p[6]),
                            Item("total_pkt_count", p[7] + 256 * p[8]),
                            Item("rssi", ToInt8(p[9])),
                            Item("lqi", p[10])>>,
                  calls |-> <<Call(req, t)>>, rcp |-> t.rcp]
            ELSE [error |-> OT_ERROR_FAILED, out |-> <<>>,
                  calls |-> <<Call(req, t)>>, rcp |-> t.rcp]
    ELSE NoCall(OT_ERROR_INVALID_ARGS, reg)

\* case MFG_CMD_START_RX_TEST
\* variant: the frame is sent whatever the argument count
MfgStartRxTestAnyCount(aArgsLength, r, reg) ==
    SendIgnoring([InitPayload EXCEPT ![1] = MFG_CMD_START_RX_TEST], r, reg)

MfgStartRxTest(aArgsLength, r, reg) ==
    IF aArgsLength = 1
    THEN SendIgnoring([InitPayload EXCEPT ![1] = MFG_CMD_START_RX_TEST], r, reg)
    ELSE NoCall(OT_ERROR_INVALID_ARGS, reg)

\* case MFG_CMD_BURST_TX
MfgBurstTx(aArgsLength, aArgs, r, reg) ==
    IF aArgsLength = 3 /\ ToUint8(Arg(aArgs, 1)) < 8 /\ ToUint8(Arg(aArgs, 2)) > 5
    THEN SendIgnoring([InitPayload EXCEPT ![1] = MFG_CMD_BURST_TX,
                                          ![4] = ToUint8(Arg(aArgs, 1)),
                                          ![5] = ToUint8(Arg(aArgs, 2))], r, reg)
    ELSE NoCall(OT_ERROR_INVALID_ARGS, reg)

\* case MFG_CMD_CONTINOUS_CCA_TEST
MfgContinuousCcaTest(aArgsLength, aArgs, r, reg) ==
    IF aArgsLength = 3 /\ ToUint8(Arg(aArgs, 1)) < 2 /\ ToUint8(Arg(aArgs, 2)) < 4
    THEN LET req == [InitPayload EXCEPT ![1] = MFG_CMD_CONTINOUS_CCA_TEST,
                                        ![2] = MFG_CMD_ACTION_SET,
                                        ![4] = ToUint8(Arg(aArgs, 1)),
                                        ![5] = ToUint8(Arg(aArgs, 2))]
             t == otPlatRadioMfgCommand(req, r, reg)
         IN [error |-> IF t.outputLen >= 4 /\ t.payload[3] = 0
                       THEN OT_ERROR_NONE ELSE OT_ERROR_FAILED,
             out |-> <<>>, calls |-> <<Call(req, t)>>, rcp |-> t.rcp]
    ELSE NoCall(OT_ERROR_INVALID_ARGS, reg)

\* case MFG_CMD_PHY_TX_TEST_PSDU
MfgPhyTxTestPsdu(aArgsLength, aArgs, r, reg) ==
    IF /\ aArgsLength = 4
       /\ ToUint8(Arg(aArgs, 1)) < 8
       /\ ToUint8(Arg(aArgs, 2)) > 5
       /\ ToUint8(Arg(aArgs, 3)) < 2
    THEN SendIgnoring([InitPayload EXCEPT ![1] = MFG_CMD_PHY_TX_TEST_PSDU,
                                          ![2] = MFG_CMD_ACTION_SET,
                                          ![4] = ToUint8(Arg(aArgs, 1)),
                                          ![5] = ToUint8(Arg(aArgs, 2)),
                                          ![6] = ToUint8(Arg(aArgs, 3))], r, reg)
    ELSE NoCall(OT_ERROR_INVALID_ARGS, reg)

\* case MFG_CMD_SET_GENERIC_PARAM (aArgs[2..4] are parsed by strtol(.., 16))
MfgSetGenericParam(aArgsLength, aArgs, r, reg) ==
    IF aArgsLength = 5
    THEN LET panid == ToUint16(Arg(aArgs, 2))
             destaddr == ToUint16(Arg(aArgs, 3))
             srcaddr == ToUint16(Arg(aArgs, 4))
         IN SendIgnoring([InitPayload EXCEPT ![1] = MFG_CMD_SET_GENERIC_PARAM,
                                             ![2] = MFG_CMD_ACTION_SET,
                                             ![4] = ToUint8(Arg(aArgs, 1)),
                                             ![5] = panid % 256,
                                             ![6] = (panid \div 256) % 256,
                                             ![7] = destaddr % 256,
                                             ![8] = (destaddr \div 256) % 256,
                                             ![9] = srcaddr % 256,
                                             ![10] = (srcaddr \div 256) % 256], r, reg)
    ELSE NoCall(OT_ERROR_INVALID_ARGS, reg)

\* switch (cmdId) of ProcessMfgCommands
MfgSwitch(cmdId, aArgsLength, aArgs, r, reg) ==
    CASE cmdId = MFG_CMD_GET_SET_CHANNEL ->
            ProcessMfgGetInt8(MFG_CMD_GET_SET_CHANNEL, aArgsLength, r, reg)
      [] cmdId = MFG_CMD_GET_SET_CHANNEL + 1 ->
            ProcessMfgSetInt8(MFG_CMD_GET_SET_CHANNEL, aArgsLength, aArgs, 11, 26, r, reg)
      [] cmdId = MFG_CMD_GET_SET_TXPOWER ->
            ProcessMfgGetInt8(MFG_CMD_GET_SET_TXPOWER, aArgsLength, r, reg)
      [] cmdId = MFG_CMD_GET_SET_TXPOWER + 1 ->
            ProcessMfgSetInt8(MFG_CMD_GET_SET_TXPOWER, aArgsLength, aArgs, -20, 22, r, reg)
      [] cmdId = MFG_CMD_CONTINUOUS_TX ->
            ProcessMfgSetInt8(MFG_CMD_CONTINUOUS_TX, aArgsLength, aArgs, 0, 1, r, reg)
      [] cmdId = MFG_CMD_GET_SET_PAYLOAD_SIZE ->
            ProcessMfgGetInt8(MFG_CMD_GET_SET_PAYLOAD_SIZE, aArgsLength, r, reg)
      [] cmdId = MFG_CMD_GET_SET_PAYLOAD_SIZE + 1 ->
            ProcessMfgSetInt8(MFG_CMD_GET_SET_PAYLOAD_SIZE, aArgsLength, aArgs, 17, 116, r, reg)
      [] cmdId = MFG_CMD_GET_RX_RESULT -> MfgGetRxResult(aArgsLength, r, reg)
      [] cmdId = MFG_CMD_START_RX_TEST -> MfgStartRxTest(aArgsLength, r, reg)
      [] cmdId = MFG_CMD_BURST_TX -> MfgBurstTx(aArgsLength, aArgs, r, reg)
      [] cmdId = MFG_CMD_DUTY_CYCLE_TX ->
            ProcessMfgSetInt8(MFG_CMD_DUTY_CYCLE_TX, aArgsLength, aArgs, 0, 1, r, reg)
      [] cmdId = MFG_CMD_GET_SET_CCA_THRESHOLD ->
            ProcessMfgGetInt8(MFG_CMD_GET_SET_CCA_THRESHOLD, aArgsLength, r, reg)
      [] cmdId = MFG_CMD_GET_SET_CCA_THRESHOLD + 1 ->
            ProcessMfgSetInt8(MFG_CMD_GET_SET_CCA_THRESHOLD, aArgsLength, aArgs, -110, 0, r, reg)
      [] cmdId = MFG_CMD_CONTINOUS_CCA_TEST -> MfgContinuousCcaTest(aArgsLength, aArgs, r, reg)
      [] cmdId = MFG_CMD_GET_CCA_STATUS ->
            ProcessMfgGetInt8(MFG_CMD_GET_CCA_STATUS, aArgsLength, r, reg)
      [] cmdId = MFG_CMD_CONTINOUS_ED_TEST ->
            ProcessMfgSetInt8(MFG_CMD_CONTINOUS_ED_TEST, aArgsLength, aArgs, 0, 1, r, reg)
      [] cmdId = MFG_CMD_GET_ED_VALUE ->
            ProcessMfgGetInt8(MFG_CMD_GET_ED_VALUE, aArgsLength, r, reg)
      [] cmdId = MFG_CMD_PHY_TX_TEST_PSDU -> MfgPhyTxTestPsdu(aArgsLength, aArgs, r, reg)
      [] cmdId = MFG_CMD_PHY_RX_TX_ACK_TEST ->
            ProcessMfgSetInt8(MFG_CMD_PHY_RX_TX_ACK_TEST, aArgsLength, aArgs, 0, 1, r, reg)
      [] cmdId = MFG_CMD_SET_GENERIC_PARAM -> MfgSetGenericParam(aArgsLength, aArgs, r, reg)
      [] OTHER -> NoCall(OT_ERROR_NOT_IMPLEMENTED, reg)

\* the enable/disable toggle at the head of ProcessMfgCommands
IsMfgToggle(aArgsLength, aArgs) ==
    aArgsLength = 1 /\ (ToUint8(Arg(aArgs, 0)) = 0 \/ ToUint8(Arg(aArgs, 0)) = 1)

\* the direct message for the RCP: all 12 arguments are the payload
MfgPassthrough(aArgs, s, r) ==
    LET req == [i \in 0..11 |-> ToUint8(Arg(aArgs, i))]
        t == otPlatRadioMfgCommand(req, r, s.rcp)
    IN [error |-> OT_ERROR_NONE,
        out |-> s.out \o [i \in 1..t.outputLen |-> Item("byte", t.payload[i - 1])]
                      \o <<Item("CRLF", 0)>>,
        calls |-> Append(s.calls, Call(req, t)),
        rcp |-> t.rcp]

\* (mutant) an unrecognised opcode is reported before the argument count is looked at
MfgHandleErrorsNotImplFirst(aArgsLength, aArgs, s, r) ==
    IF s.error = OT_ERROR_NONE THEN s
    ELSE IF s.error = OT_ERROR_NOT_IMPLEMENTED
         THEN [s EXCEPT !.out = Append(s.out, Item("NOT IMPLEMENTED", 0))]
    ELSE IF aArgsLength = payloadLen THEN MfgPassthrough(aArgs, s, r)
    ELSE IF s.error = OT_ERROR_INVALID_ARGS THEN s
    ELSE [s EXCEPT !.out = Append(s.out, Item("FAILED", 0))]

\* "HANDLE ERRORS" at the end of ProcessMfgCommands
\* variant: a failed command is sent again
MfgHandleErrorsRetry(aArgsLength, aArgs, s, r) ==
    IF s.error = OT_ERROR_NONE THEN s
    ELSE IF aArgsLength = payloadLen THEN MfgPassthrough(aArgs, s, r)
    ELSE IF s.error = OT_ERROR_INVALID_ARGS THEN s
    ELSE IF s.error = OT_ERROR_NOT_IMPLEMENTED
         THEN [s EXCEPT !.out = Append(s.out, Item("NOT IMPLEMENTED", 0))]
    ELSE LET t == otPlatRadioMfgCommand(s.calls[1].req, r, s.rcp)
         IN [s EXCEPT !.out = Append(s.out, Item("FAILED", 0)),
                      !.calls = Append(s.calls, Call(s.calls[1].req, t)),
                      !.rcp = t.rcp]

MfgHandleErrors(aArgsLength, aArgs, s, r) ==
    IF s.error = OT_ERROR_NONE THEN s
    ELSE IF aArgsLength = payloadLen THEN MfgPassthrough(aArgs, s, r)
    ELSE IF s.error = OT_ERROR_INVALID_ARGS THEN s
    ELSE IF s.error = OT_ERROR_NOT_IMPLEMENTED
         THEN [s EXCEPT !.out = Append(s.out, Item("NOT IMPLEMENTED", 0))]
    ELSE [s EXCEPT !.out = Append(s.out, Item("FAILED", 0))]

\* otError ProcessMfgCommands(aContext, aArgsLength, aArgs); rs = the RCP's responses
\* to the first and the second transport call; the result carries the new mfgEnable
ProcessMfgCommands(aArgsLength, aArgs, enable, rs, reg) ==
    IF IsMfgToggle(aArgsLength, aArgs)
    THEN [error |-> OT_ERROR_NONE, out |-> <<>>, calls |-> <<>>, rcp |-> reg,
          mfgEnable |-> ToUint8(Arg(aArgs, 0))]
    ELSE IF enable = 0
    THEN [error |-> OT_ERROR_NONE, out |-> <<Item("MFG command not enabled", 0)>>,
          calls |-> <<>>, rcp |-> reg, mfgEnable |-> enable]
    ELSE LET s == IF aArgsLength > 0 /\ enable = 1
                  THEN MfgSwitch(ToUint8(Arg(aArgs, 0)), aArgsLength, aArgs, rs[1], reg)
                  ELSE NoCall(OT_ERROR_INVALID_ARGS, reg)
             h == MfgHandleErrors(aArgsLength, aArgs, s, rs[2])
         IN [error |-> h.error, out |-> h.out, calls |-> h.calls, rcp |-> h.rcp,
             mfgEnable |-> enable]

(***************************************************************************)
(* ProcessSetEui64.  A string is the sequence of its character codes; the  *)
(* C string ends with a NUL after them.                                    *)
(***************************************************************************)
\* hex[i] of the C string (0 based), the terminating NUL included
CharAt(str, i) == IF i < Len(str) THEN str[i + 1] ELSE 0

\* the chain of range tests on one character: its 4 bit value, or -1 (the else branch)
HexNibble(byte) ==
    IF byte >= 48 /\ byte <= 57 THEN byte - 48
    ELSE IF byte >= 97 /\ byte <= 102 THEN byte - 97 + 10
    ELSE IF byte >= 65 /\ byte <= 70 THEN byte - 65 + 10
    ELSE -1

\* (mutant) the two digits of a byte are taken low nibble first
EuiShiftInSwapped(m8, nibble) == (m8 + 16 * (nibble % 16)) % 256

\* addr.m8[i] = (addr.m8[i] << 4) | (byte & 0xF), stored in a uint8_t
EuiShiftIn(m8, nibble) == ((m8 * 16) % 256) + (nibble % 16)

\* the test that guards the parse: hex[1] == 'x' && strlen(*aArgs) == 18
EuiFormAccepted(hex) == CharAt(hex, 1) = 120 /\ Len(hex) = 18

\* the two nested loops: the 8 bytes, or failure at the first non-hex character
EuiParse(hex) ==
    LET nib == [k \in 0..15 |-> HexNibble(CharAt(hex, 2 + k))]
    IN [error |-> IF \A k \in 0..15 : nib[k] # -1 THEN OT_ERROR_NONE ELSE OT_ERROR_FAILED,
        m8 |-> [i \in 0..7 |-> EuiShiftIn(EuiShiftIn(0, nib[2 * i]), nib[2 * i + 1])]]

\* otError ProcessSetEui64(aContext, aArgsLength, aArgs); platErr is what
\* otPlatRadioSetIeeeEui64 returns when it is called
ProcessSetEui64(aArgsLength, aArgs, platErr) ==
    IF aArgsLength = 1 /\ EuiFormAccepted(Arg(aArgs, 0))
    THEN LET parsed == EuiParse(Arg(aArgs, 0))
         IN IF parsed.error = OT_ERROR_NONE
            THEN [error |-> platErr,
                  plat |-> <<[fn |-> "otPlatRadioSetIeeeEui64", arg |-> parsed.m8]>>]
            ELSE [error |-> parsed.error, plat |-> <<>>]
    ELSE [error |-> OT_ERROR_INVALID_ARGS, plat |-> <<>>]

(***************************************************************************)
(* ProcessGetSetCcaCfg.  The radio platform behind                         *)
(* otPlatRadioCcaConfigValue keeps the configuration a set call hands it   *)
(* and returns it on a get call.                                           *)
(***************************************************************************)
\* the configuration the platform holds before any set
DefaultCcaCfg ==
    [mCcaMode |-> 1, mCca1Threshold |-> 0, mCca2CorrThreshold |-> 0, mCca2MinNumOfCorrTh |-> 0]

\* otPlatRadioCcaConfigValue(aInstance, &aCcaCfg, aSetValue)
otPlatRadioCcaConfigValue(aCcaCfg, aSetValue, stored) ==
    IF aSetValue = 1 THEN [cfg |-> aCcaCfg, stored |-> aCcaCfg]
    ELSE [cfg |-> stored, stored |-> stored]

\* the four fields as parsed: (uint8_t)strtol(aArgs[i], NULL, 16)
CcaParse(aArgs) ==
    [mCcaMode |-> ToUint8(Arg(aArgs, 0)),
     mCca1Threshold |-> ToUint8(Arg(aArgs, 1)),
     mCca2CorrThreshold |-> ToUint8(Arg(aArgs, 2)),
     mCca2MinNumOfCorrTh |-> ToUint8(Arg(aArgs, 3))]

\* the validation of a set
CcaCfgValid(aCcaCfg) ==
    /\ ((aCcaCfg.mCcaMode >= 1 /\ aCcaCfg.mCcaMode <= 4) \/ aCcaCfg.mCcaMode = 255)
    /\ aCcaCfg.mCca2MinNumOfCorrTh <= 6

\* otError ProcessGetSetCcaCfg(aContext, aArgsLength, aArgs)
ProcessGetSetCcaCfg(aArgsLength, aArgs, stored) ==
    IF aArgsLength = 4
    THEN IF CcaCfgValid(CcaParse(aArgs))
         THEN [error |-> OT_ERROR_NONE, out |-> <<>>,
               plat |-> <<[fn |-> "otPlatRadioCcaConfigValue:set", arg |-> CcaParse(aArgs)]>>,
               stored |-> otPlatRadioCcaConfigValue(CcaParse(aArgs), 1, stored).stored]
         ELSE [error |-> OT_ERROR_NONE, out |-> <<>>, plat |-> <<>>, stored |-> stored]
    ELSE IF aArgsLength = 0
    THEN LET got == otPlatRadioCcaConfigValue(stored, 0, stored)
         IN [error |-> OT_ERROR_NONE,
             out |-> <<Item("CCA Configuration:", 0),
                       Item("CCA Mode type", got.cfg.mCcaMode),
                       Item("CCA1 Threshold Value", got.cfg.mCca1Threshold),
                       Item("CCA2 Correlation Threshold Value", got.cfg.mCca2CorrThreshold),
                       Item("CCA2 Minimim Number of Correlation Threshold Value",
                            got.cfg.mCca2MinNumOfCorrTh)>>,
             plat |-> <<[fn |-> "otPlatRadioCcaConfigValue:get", arg |-> got.cfg]>>,
             stored |-> got.stored]
    ELSE [error |-> OT_ERROR_NONE, out |-> <<Item("ccacfg FAILED! Invalid input arg", 0)>>,
          plat |-> <<>>, stored |-> stored]

(***************************************************************************)
(* ProcessIRConfig, ProcessIRCmd, ProcessGetSetTxPowerLimit,               *)
(* ProcessGetFwVersion, ProcessGetSetIRThreshold.  The radio platform      *)
(* behind them keeps the value a set call hands it and returns it on a get *)
(* call.                                                                   *)
(***************************************************************************)
\* what the platform holds before any set
DefaultRadio == [mode |-> 0, txPowerLimit |-> 0, mIRThreshold |-> 0]

\* otPlatRadioSetIRConfig / otPlatRadioGetIRConfig
otPlatRadioSetIRConfig(held, mode) == [held EXCEPT !.mode = mode]
otPlatRadioGetIRConfig(held) == held.mode

\* otPlatRadioSetTxPowerLimit / otPlatRadioGetTxPowerLimit
otPlatRadioSetTxPowerLimit(held, txPowerLimit) == [held EXCEPT !.txPowerLimit = txPowerLimit]
otPlatRadioGetTxPowerLimit(held) == held.txPowerLimit

\* otPlatRadioIRThresholdConfig(aInstance, &aIRConfig, aSetValue)
otPlatRadioIRThresholdConfig(held, mIRThreshold, aSetValue) ==
    IF aSetValue = 1
    THEN [value |-> mIRThreshold, held |-> [held EXCEPT !.mIRThreshold = mIRThreshold]]
    ELSE [value |-> held.mIRThreshold, held |-> held]

\* otPlatRadioGetFwVersionString: the version text is not looked into
otPlatRadioGetFwVersionString == "fw-version"

PlatCall(fn, arg) == [fn |-> fn, arg |-> arg]

\* otError ProcessIRConfig(aContext, aArgsLength, aArgs)
ProcessIRConfig(aArgsLength, aArgs, held) ==
    IF aArgsLength = 1
    THEN LET mode == ToUint8(Arg(aArgs, 0))
         IN IF mode < 4
            THEN [error |-> OT_ERROR_NONE, out |-> <<>>,
                  plat |-> <<PlatCall("otPlatRadioSetIRConfig", mode)>>,
                  held |-> otPlatRadioSetIRConfig(held, mode)]
            ELSE [error |-> OT_ERROR_INVALID_ARGS, out |-> <<>>, plat |-> <<>>, held |-> held]
    ELSE [error |-> OT_ERROR_NONE, out |-> <<Item("int", otPlatRadioGetIRConfig(held))>>,
          plat |-> <<PlatCall("otPlatRadioGetIRConfig", 0)>>, held |-> held]

\* otError ProcessIRCmd(aContext, aArgsLength, aArgs)
ProcessIRCmd(aArgsLength, aArgs, held) ==
    [error |-> OT_ERROR_NONE, out |-> <<>>, plat |-> <<PlatCall("otPlatRadioSetIRCmd", 0)>>,
     held |-> held]

\* (mutant) a limit outside 1..44 is not forwarded
ProcessGetSetTxPowerLimitRejecting(aArgsLength, aArgs, held) ==
    IF aArgsLength = 1
    THEN LET txPowerLimit == ToUint8(Arg(aArgs, 0))
         IN IF txPowerLimit >= 1 /\ txPowerLimit <= 44
            THEN [error |-> OT_ERROR_NONE, out |-> <<>>,
                  plat |-> <<PlatCall("otPlatRadioSetTxPowerLimit", txPowerLimit)>>,
                  held |-> otPlatRadioSetTxPowerLimit(held, txPowerLimit)]
            ELSE [error |-> OT_ERROR_NONE, out |-> <<>>, plat |-> <<>>, held |-> held]
    ELSE IF aArgsLength = 0
    THEN [error |-> OT_ERROR_NONE, out |-> <<Item("int", otPlatRadioGetTxPowerLimit(held))>>,
          plat |-> <<PlatCall("otPlatRadioGetTxPowerLimit", 0)>>, held |-> held]
    ELSE [error |-> OT_ERROR_INVALID_ARGS, out |-> <<>>, plat |-> <<>>, held |-> held]

\* otError ProcessGetSetTxPowerLimit(aContext, aArgsLength, aArgs)
ProcessGetSetTxPowerLimit(aArgsLength, aArgs, held) ==
    IF aArgsLength = 1
    THEN LET txPowerLimit == ToUint8(Arg(aArgs, 0))
         IN [error |-> OT_ERROR_NONE, out |-> <<>>,
             plat |-> <<PlatCall("otPlatRadioSetTxPowerLimit", txPowerLimit)>>,
             held |-> otPlatRadioSetTxPowerLimit(held, txPowerLimit)]
    ELSE IF aArgsLength = 0
    THEN [error |-> OT_ERROR_NONE, out |-> <<Item("int", otPlatRadioGetTxPowerLimit(held))>>,
          plat |-> <<PlatCall("otPlatRadioGetTxPowerLimit", 0)>>, held |-> held]
    ELSE [error |-> OT_ERROR_INVALID_ARGS, out |-> <<>>, plat |-> <<>>, held |-> held]

\* otError ProcessGetFwVersion(aContext, aArgsLength, aArgs)
ProcessGetFwVersion(aArgsLength, aArgs, held) ==
    IF aArgsLength = 0
    THEN [error |-> OT_ERROR_NONE, out |-> <<Item(otPlatRadioGetFwVersionString, 0)>>,
          plat |-> <<PlatCall("otPlatRadioGetFwVersionString", 0)>>, held |-> held]
    ELSE [error |-> OT_ERROR_NONE, out |-> <<>>, plat |-> <<>>, held |-> held]

\* otError ProcessGetSetIRThreshold(aContext, aArgsLength, aArgs)
ProcessGetSetIRThreshold(aArgsLength, aArgs, held) ==
    IF aArgsLength = 1
    THEN LET mIRThreshold == ToUint16(Arg(aArgs, 0))
         IN IF mIRThreshold >= 100 /\ mIRThreshold <= 1000
            THEN [error |-> OT_ERROR_NONE, out |-> <<>>,
                  plat |-> <<PlatCall("otPlatRadioIRThresholdConfig:set", mIRThreshold)>>,
                  held |-> otPlatRadioIRThresholdConfig(held, mIRThreshold, 1).held]
            ELSE [error |-> OT_ERROR_NONE,
                  out |-> <<Item("OOB IR Threshold FAILED! Invalid Threshold Time", 0)>>,
                  plat |-> <<>>, held |-> held]
    ELSE IF aArgsLength = 0
    THEN LET got == otPlatRadioIRThresholdConfig(held, 0, 0)
         IN [error |-> OT_ERROR_NONE, out |-> <<Item("OOB IR Threshold", got.value)>>,
             plat |-> <<PlatCall("otPlatRadioIRThresholdConfig:get", 0)>>, held |-> got.held]
    ELSE [error |-> OT_ERROR_NONE,
          out |-> <<Item("OOB IR Threshold FAILED! Invalid input arg", 0)>>,
          plat |-> <<>>, held |-> held]

(***************************************************************************)
(* Running one CLI command: the effect on the CLI state                    *)
(***************************************************************************)
NoCommand ==
    [cmd |-> "none", args |-> <<>>, error |-> OT_ERROR_NONE, out |-> <<>>,
     calls |-> <<>>, plat |-> <<>>, enableBefore |-> 0, radioBefore |-> DefaultRadio,
     ccaBefore |-> DefaultCcaCfg]

\* the command is an accepted "mfgcmd 16 <v>" whose frame the RCP stored
IsStoredTxPowerSet(aArgs, enable, res) ==
    /\ Len(aArgs) = 2
    /\ enable = 1
    /\ ToUint8(Arg(aArgs, 0)) = MFG_CMD_GET_SET_TXPOWER + 1
    /\ res.error = OT_ERROR_NONE
    /\ Len(res.calls) = 1

\* kCommands entry {"mfgcmd", ProcessMfgCommands}; r is the RCP's response behaviour
RunMfgCmd(aArgs, r) ==
    LET res == ProcessMfgCommands(Len(aArgs), aArgs, mfgEnable, <<r, r>>, rcp)
    IN /\ mfgEnable' = res.mfgEnable
       /\ rcp' = res.rcp
       /\ txPowerSet' = IF IsStoredTxPowerSet(aArgs, mfgEnable, res)
                        THEN [set |-> TRUE, v |-> Arg(aArgs, 1)]
                        ELSE IF res.rcp # rcp THEN NoValue
                        ELSE txPowerSet
       /\ last' = [cmd |-> "mfgcmd", args |-> aArgs, error |-> res.error, out |-> res.out,
                   calls |-> res.calls, plat |-> <<>>, enableBefore |-> mfgEnable,
                   radioBefore |-> radio,                    ccaBefore |-> ccaCfg]
       /\ UNCHANGED <<ccaCfg, radio>>

\* kCommands entry {"seteui64", ProcessSetEui64}
RunSetEui64(aArgs, platErr) ==
    LET res == ProcessSetEui64(Len(aArgs), aArgs, platErr)
    IN /\ last' = [cmd |-> "seteui64", args |-> aArgs, error |-> res.error, out |-> <<>>,
                   calls |-> <<>>, plat |-> res.plat, enableBefore |-> mfgEnable,
                   radioBefore |-> radio,                    ccaBefore |-> ccaCfg]
       /\ UNCHANGED <<mfgEnable, rcp, txPowerSet, ccaCfg, radio>>

\* kCommands entry {"ccacfg", ProcessGetSetCcaCfg}
RunCcaCfg(aArgs) ==
    LET res == ProcessGetSetCcaCfg(Len(aArgs), aArgs, ccaCfg)
    IN /\ ccaCfg' = res.stored
       /\ last' = [cmd |-> "ccacfg", args |-> aArgs, error |-> res.error, out |-> res.out,
                   calls |-> <<>>, plat |-> res.plat, enableBefore |-> mfgEnable,
                   radioBefore |-> radio,                    ccaBefore |-> ccaCfg]
       /\ UNCHANGED <<mfgEnable, rcp, txPowerSet, radio>>

\* kCommands entries {"ircfg", ProcessIRConfig}, {"ircmd", ProcessIRCmd},
\* {"txpwrlimit", ProcessGetSetTxPowerLimit}, {"fwversion", ProcessGetFwVersion},
\* {"irthold", ProcessGetSetIRThreshold}
RadioHandler(cmdName, aArgs, held) ==
    CASE cmdName = "ircfg" -> ProcessIRConfig(Len(aArgs), aArgs, held)
      [] cmdName = "ircmd" -> ProcessIRCmd(Len(aArgs), aArgs, held)
      [] cmdName = "txpwrlimit" -> ProcessGetSetTxPowerLimit(Len(aArgs), aArgs, held)
      [] cmdName = "fwversion" -> ProcessGetFwVersion(Len(aArgs), aArgs, held)
      [] cmdName = "irthold" -> ProcessGetSetIRThreshold(Len(aArgs), aArgs, held)

RunRadioCmd(cmdName, aArgs) ==
    LET res == RadioHandler(cmdName, aArgs, radio)
    IN /\ radio' = res.held
       /\ last' = [cmd |-> cmdName, args |-> aArgs, error |-> res.error, out |-> res.out,
                   calls |-> <<>>, plat |-> res.plat, enableBefore |-> mfgEnable,
                   radioBefore |-> radio, ccaBefore |-> ccaCfg]
       /\ UNCHANGED <<mfgEnable, rcp, txPowerSet, ccaCfg>>

(***************************************************************************)
(* Inputs                                                                  *)
(***************************************************************************)
\* RCP response behaviours: complete, status error, and responses shorter than
\* the SET ack (4), the GET data (5) and the RX result (11)
RspOk == [len |-> 12, status |-> 0, data |-> 26]
RspOkNegative == [len |-> 12, status |-> 0, data |-> 200]
RspStatus == [len |-> 12, status |-> 1, data |-> 26]
RspShort3 == [len |-> 3, status |-> 0, data |-> 26]
RspShort4 == [len |-> 4, status |-> 0, data |-> 26]
RspShort10 == [len |-> 10, status |-> 0, data |-> 26]
RspStatus11 == [len |-> 11, status |-> 1, data |-> 26]

RcpRsps == { RspOk, RspOkNegative, RspStatus, RspShort3, RspShort4, RspShort10, RspStatus11 }

\* the CLI opcodes the switch of ProcessMfgCommands recognises
MfgGetOpcodes ==
    { MFG_CMD_GET_SET_CHANNEL, MFG_CMD_GET_SET_TXPOWER, MFG_CMD_GET_SET_PAYLOAD_SIZE,
      MFG_CMD_GET_SET_CCA_THRESHOLD, MFG_CMD_GET_CCA_STATUS, MFG_CMD_GET_ED_VALUE }

\* set-int8 opcodes with their ranges
SetInt8Table ==
    { <<MFG_CMD_GET_SET_CHANNEL + 1, 11, 26>>,
      <<MFG_CMD_GET_SET_TXPOWER + 1, -20, 22>>,
      <<MFG_CMD_CONTINUOUS_TX, 0, 1>>,
      <<MFG_CMD_GET_SET_PAYLOAD_SIZE + 1, 17, 116>>,
      <<MFG_CMD_DUTY_CYCLE_TX, 0, 1>>,
      <<MFG_CMD_GET_SET_CCA_THRESHOLD + 1, -110, 0>>,
      <<MFG_CMD_CONTINOUS_ED_TEST, 0, 1>>,
      <<MFG_CMD_PHY_RX_TX_ACK_TEST, 0, 1>> }

MfgSetOpcodes == { e[1] : e \in SetInt8Table }

MfgCompositeOpcodes ==
    { MFG_CMD_GET_RX_RESULT, MFG_CMD_START_RX_TEST, MFG_CMD_BURST_TX,
      MFG_CMD_CONTINOUS_CCA_TEST, MFG_CMD_PHY_TX_TEST_PSDU, MFG_CMD_SET_GENERIC_PARAM }

MfgOpcodes == MfgGetOpcodes \cup MfgSetOpcodes \cup MfgCompositeOpcodes

\* how far beyond the ends of a range values are tried
Slack == 1

\* how many 8 bit wraps above and below a value are tried
Wraps == 1

\* the values just inside and just outside [min, max], and their 8 bit wraps
EdgeValues(min, max) ==
    LET near == ((min - Slack)..min) \cup (max..(max + Slack))
    IN { v + 256 * w : v \in near, w \in (-Wraps)..Wraps }

Pad12(head) == [i \in 1..12 |-> IF i <= Len(head) THEN head[i] ELSE 0]

\* a frame that sets the TX power register directly, an unrecognised opcode,
\* recognised opcodes and a toggle value with twelve arguments
TwelveArgs ==
    { Pad12(h) : h \in { <<11, MFG_CMD_GET_SET_TXPOWER, MFG_CMD_ACTION_SET, 0, 88>>,
                         <<99, 1, 2, 3, 4, 5, 6, 7, 8, 9, 10, 300>>,
                         <<MFG_CMD_GET_SET_CHANNEL + 1, 11>>,
                         <<MFG_CMD_GET_RX_RESULT>>,
                         <<1>> } }

\* single arguments that are no recognised opcode
OtherOpcodes == {0, 1, 2, 60, 99, 255, 256, 257, 267, -1, -255}

\* one well-formed invocation of every recognised opcode
ValidMfgArgs ==
    { <<op>> : op \in MfgGetOpcodes \cup {MFG_CMD_GET_RX_RESULT, MFG_CMD_START_RX_TEST} }
    \cup { <<e[1], e[2]>> : e \in SetInt8Table }
    \cup { <<MFG_CMD_BURST_TX, 7, 6>>, <<MFG_CMD_CONTINOUS_CCA_TEST, 1, 3>>,
           <<MFG_CMD_PHY_TX_TEST_PSDU, 7, 6, 1>>,
           <<MFG_CMD_SET_GENERIC_PARAM, 1, 4660, 65535, 65537>> }

\* invocations with a wrong argument count or a field out of range
InvalidMfgArgs ==
    { <<op, 1>> : op \in {MFG_CMD_GET_SET_CHANNEL, MFG_CMD_GET_RX_RESULT, 99} }
    \cup { <<MFG_CMD_BURST_TX, m, g>> : m \in {8, 263}, g \in {5, 261} }
    \cup { <<MFG_CMD_CONTINOUS_CCA_TEST, e, m>> : e \in {2, 257}, m \in {0, 4} }
    \cup { <<MFG_CMD_PHY_TX_TEST_PSDU, 8, 6, 1>>, <<MFG_CMD_PHY_TX_TEST_PSDU, 7, 5, 1>>,
           <<MFG_CMD_PHY_TX_TEST_PSDU, 7, 6, 2>> }
    \cup { <<MFG_CMD_GET_SET_CHANNEL + 1, 11, 0>>, <<MFG_CMD_BURST_TX, 1>>,
           <<MFG_CMD_START_RX_TEST, 0, 0, 0>>, <<MFG_CMD_GET_SET_CHANNEL + 1>> }

\* the gate: every argument count, recognised and unrecognised opcodes
GateArgs ==
    { <<>> } \cup { <<op>> : op \in OtherOpcodes } \cup ValidMfgArgs \cup TwelveArgs
    \cup { <<0, 1>>, <<1, 0>>, <<99, 1>> }

\* set-int8: every opcode at the edges of its range
SetInt8Args ==
    { <<0>>, <<1>> }
    \cup UNION { { <<e[1], v>> : v \in EdgeValues(e[2], e[3]) } : e \in SetInt8Table }

\* responses: every recognised opcode, well-formed and not
RspArgs == { <<0>>, <<1>> } \cup ValidMfgArgs \cup InvalidMfgArgs \cup TwelveArgs

\* TX power: every value of the range, its neighbours and wraps, and the GET
TxPowerArgs ==
    { <<1>>, <<MFG_CMD_GET_SET_TXPOWER>> }
    \cup { <<MFG_CMD_GET_SET_TXPOWER + 1, v>> : v \in (-20 - Slack)..(22 + Slack) }
    \cup { <<MFG_CMD_GET_SET_TXPOWER + 1, v>> : v \in {-246, 266, 127, -128} }
    \cup { Pad12(<<11, MFG_CMD_GET_SET_TXPOWER, MFG_CMD_ACTION_SET, 0, 88>>) }

(***************************************************************************)
(* Initial state                                                           *)
(***************************************************************************)
\* descriptors 3 .. MaxFd are the ones the process can hold
MaxFd == 6

\* the number of clients that ever connect
MaxConn == 2
NoCtx == [valid |-> FALSE, rd |-> {}, err |-> {}]
\* the observation of one daemon operation: what it was handed and what it did
NoEvent ==
    [op |-> "none", listenReadable |-> FALSE, sessionBefore |-> 0, accept |-> "none",
     accepted |-> 0, sessionErr |-> FALSE, readConn |-> 0, readResult |-> "none",
     dispatched |-> FALSE, writes |-> 0, wrote |-> {}, latest |-> 0,
     listenErr |-> FALSE, sessionRd |-> FALSE, closedConns |-> {}, failAt |-> 0,
     stale |-> FALSE, readLen |-> 0, nulAt |-> -1,
     hadListen |-> FALSE, changed |-> FALSE, prev |-> "none"]

CliInit ==
    /\ mfgEnable = 0
    /\ rcp = 0
    /\ txPowerSet = NoValue
    /\ ccaCfg = DefaultCcaCfg
    /\ radio = DefaultRadio
    /\ last = NoCommand

DaemonInit ==
    /\ mListenSocket = -1
    /\ mSessionSocket = -1
    /\ mDaemonLock = -1
    /\ alive = TRUE
    /\ ctx = NoCtx
    /\ fdtab = [fd \in 3..MaxFd |-> 0]
    /\ closes = <<>>
    /\ nAccepted = 0
    /\ badClose = 0
    /\ ev = NoEvent

\* the two processes before either has called SetUp
Instances == {1, 2}

NotStarted == [pc |-> "idle", alive |-> TRUE, lockFailed |-> FALSE]

StartInit ==
    /\ inst = [i \in Instances |-> NotStarted]
    /\ lockHolder = 0
    /\ sockFile = 0

Init == CliInit /\ DaemonInit /\ StartInit

(***************************************************************************)
(* The manufacturing commands on their own                                 *)
(***************************************************************************)
\* a mfgcmd line from a set of argument vectors, answered by one of a set of responses
MfgCommand(argSet, rspSet) ==
    \E a \in argSet, r \in rspSet : RunMfgCmd(a, r) /\ UNCHANGED <<daemonVars, startVars>>

GateCommand == MfgCommand(GateArgs, {RspOk, RspStatus})
NextGate == GateCommand
SpecGate == Init /\ [][NextGate]_vars

SetInt8Command == MfgCommand(SetInt8Args, {RspOk, RspStatus})
NextSetInt8 == SetInt8Command
SpecSetInt8 == Init /\ [][NextSetInt8]_vars

RspCommand == MfgCommand(RspArgs, RcpRsps)
NextRsp == RspCommand
SpecRsp == Init /\ [][NextRsp]_vars

TxPowerCommand == MfgCommand(TxPowerArgs, {RspOk, RspStatus})
NextTxPower == TxPowerCommand
SpecTxPower == Init /\ [][NextTxPower]_vars

(***************************************************************************)
(* The 12-argument passthrough on its own                                  *)
(***************************************************************************)
\* the eleven arguments after the first: small bytes, bytes that need the 8 bit
\* reduction, and a frame the handlers would build themselves
PassTails ==
    { <<1, 2, 3, 4, 5, 6, 7, 8, 9, 10, 11>>,
      <<256, 257, 511, -1, -256, 300, 255, 128, 127, 1000, 65535>>,
      <<MFG_CMD_GET_SET_TXPOWER, MFG_CMD_ACTION_SET, 0, 88, 0, 0, 0, 0, 0, 0, 0>> }

\* first arguments: no recognised opcode, recognised opcodes, and integers whose low
\* 8 bits are a recognised opcode
PassHeads ==
    OtherOpcodes
    \cup { MFG_CMD_GET_SET_CHANNEL, MFG_CMD_GET_SET_CHANNEL + 1, MFG_CMD_GET_RX_RESULT,
           MFG_CMD_START_RX_TEST, MFG_CMD_BURST_TX, MFG_CMD_SET_GENERIC_PARAM }
    \cup { op + 256 * w : op \in {MFG_CMD_GET_SET_CHANNEL, MFG_CMD_START_RX_TEST},
                          w \in 1..Wraps }

PassArgs == { <<0>>, <<1>> } \cup { <<h>> \o t : h \in PassHeads, t \in PassTails }

PassCommand == MfgCommand(PassArgs, {RspOk, RspStatus, RspShort3, RspStatus11})
NextPass == PassCommand
SpecPass == Init /\ [][NextPass]_vars

(***************************************************************************)
(* seteui64 on its own: the argument typed is drawn in the initial state   *)
(***************************************************************************)
\* "0x0123456789abcdef" and "0x89ABCDEFfedcba01"
EuiLower == <<48, 120, 48, 49, 50, 51, 52, 53, 54, 55, 56, 57, 97, 98, 99, 100, 101, 102>>
EuiMixed == <<48, 120, 56, 57, 65, 66, 67, 68, 69, 70, 102, 101, 100, 99, 98, 97, 48, 49>>

\* the ends of the three digit ranges, the characters next to them, 'x', 'X', ' '
EuiChars == {47, 48, 57, 58, 64, 65, 70, 71, 96, 97, 102, 103, 120, 88, 32, 53, 99, 68}

\* how many characters a string may be longer or shorter than 18
LenSlack == 1

EuiStrings ==
    { [EuiLower EXCEPT ![p] = c] : p \in 1..18, c \in EuiChars }
    \cup { [EuiMixed EXCEPT ![p] = c] : p \in 1..18, c \in EuiChars }
    \cup { [EuiLower EXCEPT ![2 * i + 1] = c, ![2 * i + 2] = d] :
             i \in 1..8, c \in EuiChars, d \in EuiChars }
    \cup { SubSeq(EuiLower, 1, 18 - k) : k \in 1..LenSlack }
    \cup { EuiLower \o SubSeq(EuiMixed, 3, 2 + k) : k \in 1..LenSlack }
    \cup { <<48>>, <<48, 120>>, SubSeq(EuiLower, 3, 18), <<120>> \o EuiLower }

EuiArgs ==
    { <<str>> : str \in EuiStrings } \cup { <<>>, <<EuiLower, EuiLower>>, <<EuiLower, <<49>>>> }

Typed(cmdName, aArgs) == [NoCommand EXCEPT !.cmd = cmdName, !.args = aArgs]

InitEui ==
    /\ DaemonInit
    /\ StartInit
    /\ mfgEnable = 0 /\ rcp = 0 /\ txPowerSet = NoValue
    /\ ccaCfg = DefaultCcaCfg
    /\ radio = DefaultRadio
    /\ \E a \in EuiArgs : last = Typed("typed", a)

SetEui64Command ==
    /\ last.cmd = "typed"
    /\ \E platErr \in {OT_ERROR_NONE, OT_ERROR_FAILED} : RunSetEui64(last.args, platErr)
    /\ UNCHANGED <<daemonVars, startVars>>

NextEui == SetEui64Command
SpecEui == InitEui /\ [][NextEui]_vars

(***************************************************************************)
(* ccacfg on its own                                                       *)
(***************************************************************************)
\* hexadecimal values of the mode (0x0 .. 0x1FF) and of the count (0x0 .. 0x106)
CcaModes == {0, 1, 4, 5, 254, 255, 256, 257, 511}
CcaCounts == {0, 6, 7, 262}

CcaArgs ==
    { <<m, t, 90, c>> : m \in CcaModes, t \in {0, 75}, c \in CcaCounts }
    \cup { <<>>, <<1>>, <<1, 0, 0, 0, 0>> }

CcaCommand == \E a \in CcaArgs : RunCcaCfg(a) /\ UNCHANGED <<daemonVars, startVars>>

NextCca == CcaCommand
SpecCca == Init /\ [][NextCca]_vars

(***************************************************************************)
(* irthold on its own                                                      *)
(***************************************************************************)
\* thresholds at and around the ends of 100 .. 1000, and the same 16 bits typed as
\* larger and as negative integers
IrBase == {0, 50, 99, 100, 500, 1000, 1001, 5000, 65535}
IrValues == { v + k * 65536 : v \in IrBase, k \in (0 - Wraps)..Wraps }

IrArgs == { <<v>> : v \in IrValues } \cup { <<>>, <<500, 1>> }

IrtholdCommand == \E a \in IrArgs : RunRadioCmd("irthold", a) /\ UNCHANGED <<daemonVars, startVars>>

NextIr == IrtholdCommand
SpecIr == Init /\ [][NextIr]_vars

(***************************************************************************)
(* txpwrlimit on its own                                                   *)
(***************************************************************************)
\* limits at and around the ends of 1 .. 44, the ends of a byte, and integers that
\* need the 8 bit reduction
TxLimitValues ==
    {0, 1, 2, 20, 43, 44, 45, 46, 127, 128, 255, -1, -212}
    \cup { v + 256 * w : v \in {0, 44, 45}, w \in 1..Wraps }

TxLimitArgs == { <<v>> : v \in TxLimitValues } \cup { <<>>, <<20, 1>>, <<20, 1, 2>> }

TxPwrLimitCommand ==
    \E a \in TxLimitArgs : RunRadioCmd("txpwrlimit", a) /\ UNCHANGED <<daemonVars, startVars>>

NextTxLimit == TxPwrLimitCommand
SpecTxLimit == Init /\ [][NextTxLimit]_vars

\* composite commands: burst TX, continuous CCA test, PHY TX test PSDU, with
\* fields on both sides of each bound and arguments beyond 8 bits
BurstModes == {0, 7, 8, 255} \cup { 7 + 256 * w : w \in 1..Wraps }
BurstGaps == {5, 6, 255, -250} \cup { 5 + 256 * w : w \in 1..Wraps }
CcaTestEnables == {0, 1, 2} \cup { 1 + 256 * w : w \in 1..Wraps }
CcaTestModes == {0, 3, 4} \cup { 3 + 256 * w : w \in 1..Wraps }
PsduAcks == {0, 1, 2} \cup { 1 + 256 * w : w \in 1..Wraps }
CompositeArgs ==
    { <<0>>, <<1>> }
    \cup { <<MFG_CMD_BURST_TX, m, g>> : m \in BurstModes, g \in BurstGaps }
    \cup { <<MFG_CMD_CONTINOUS_CCA_TEST, e, m>> : e \in CcaTestEnables, m \in CcaTestModes }
    \cup { <<MFG_CMD_PHY_TX_TEST_PSDU, c, g, a>> :
              c \in {7, 8}, g \in {5, 6}, a \in PsduAcks }
    \cup { <<MFG_CMD_BURST_TX, 7>>, <<MFG_CMD_BURST_TX, 7, 6, 0>>,
           <<MFG_CMD_CONTINOUS_CCA_TEST, 1>>, <<MFG_CMD_CONTINOUS_CCA_TEST, 1, 3, 0>>,
           <<MFG_CMD_PHY_TX_TEST_PSDU, 7, 6>>, <<MFG_CMD_PHY_TX_TEST_PSDU, 7, 6, 1, 0>> }

CompositeCommand == MfgCommand(CompositeArgs, {RspOk, RspStatus, RspShort3})
NextComposite == CompositeCommand
SpecComposite == Init /\ [][NextComposite]_vars

\* every recognised opcode and some others, each with every argument count up
\* to one more than the frame length: the opcode, its fields in range, zeros
MaxCount == payloadLen + 1
CountHeads ==
    MfgOpcodes \cup {2, 60, 99, 255} \cup { MFG_CMD_GET_SET_CHANNEL + 256 * w : w \in 1..Wraps }
CountFields(op) ==
    IF op \in MfgSetOpcodes THEN <<(CHOOSE e \in SetInt8Table : e[1] = op)[2]>>
    ELSE IF op = MFG_CMD_BURST_TX THEN <<7, 6>>
    ELSE IF op = MFG_CMD_CONTINOUS_CCA_TEST THEN <<1, 3>>
    ELSE IF op = MFG_CMD_PHY_TX_TEST_PSDU THEN <<7, 6, 1>>
    ELSE IF op = MFG_CMD_SET_GENERIC_PARAM THEN <<1, 4660, 65535, 65537>>
    ELSE <<>>
CountVector(op, n) ==
    LET given == <<op>> \o CountFields(op)
    IN [i \in 1..n |-> IF i <= Len(given) THEN given[i] ELSE 0]
CountArgs ==
    { <<>>, <<0>>, <<1>> } \cup { CountVector(op, n) : op \in CountHeads, n \in 1..MaxCount }

CountCommand == MfgCommand(CountArgs, {RspOk, RspStatus, RspShort3})
NextCount == CountCommand
SpecCount == Init /\ [][NextCount]_vars

(***************************************************************************)
(* The commands of kCommands other than mfgcmd, run with 0 .. MaxArgc      *)
(* arguments                                                               *)
(***************************************************************************)
\* the most arguments a line carries
MaxArgc == 5

TableCmds == {"ircfg", "ircmd", "seteui64", "txpwrlimit", "ccacfg", "fwversion", "irthold"}

\* an argument each command takes in its set form
SampleArg(cmdName) ==
    CASE cmdName = "seteui64" -> EuiLower
      [] cmdName = "irthold" -> 500
      [] cmdName = "txpwrlimit" -> 20
      [] cmdName = "ccacfg" -> 2
      [] OTHER -> 1

SampleArgs(cmdName, n) == [i \in 1..n |-> SampleArg(cmdName)]

RunTableCmd(cmdName, aArgs) ==
    CASE cmdName = "seteui64" -> RunSetEui64(aArgs, OT_ERROR_NONE)
      [] cmdName = "ccacfg" -> RunCcaCfg(aArgs)
      [] OTHER -> RunRadioCmd(cmdName, aArgs)

ArgcCommand ==
    \E cmdName \in TableCmds, n \in 0..MaxArgc :
        RunTableCmd(cmdName, SampleArgs(cmdName, n)) /\ UNCHANGED <<daemonVars, startVars>>

NextArgc == ArgcCommand
SpecArgc == Init /\ [][NextArgc]_vars

(***************************************************************************)
(* The process's descriptors.  fdtab[fd] is 0 for a free descriptor, -1    *)
(* for the listening socket, -2 for the lock file and k >= 1 for the k-th  *)
(* connection accept() returned.  A new descriptor is the lowest free one. *)
(***************************************************************************)
LowestFree(tab) ==
    CHOOSE fd \in DOMAIN tab : tab[fd] = 0 /\ \A g \in DOMAIN tab : tab[g] = 0 => fd <= g

\* the daemon's members and descriptors, with what the running operation has written
DState ==
    [listen |-> mListenSocket, session |-> mSessionSocket, lock |-> mDaemonLock,
     fdtab |-> fdtab, closes |-> closes, nAccepted |-> nAccepted, badClose |-> badClose,
     writes |-> 0, wrote |-> {}]

\* close(fd)
CloseFd(d, fd) ==
    IF fd \in DOMAIN d.fdtab /\ d.fdtab[fd] >= 1
    THEN [d EXCEPT !.fdtab[fd] = 0, !.closes[d.fdtab[fd]] = @ + 1]
    ELSE IF fd \in DOMAIN d.fdtab /\ d.fdtab[fd] < 0
    THEN [d EXCEPT !.fdtab[fd] = 0]
    ELSE [d EXCEPT !.badClose = @ + 1]

\* the connection behind the session descriptor, 0 without a session
SessionConn(d) == IF d.session = -1 THEN 0 ELSE d.fdtab[d.session]

(***************************************************************************)
(* Daemon::OutputFormatV: the write to the session                         *)
(***************************************************************************)
\* (mutant) the write is attempted without a session, and a failed write leaves
\* mSessionSocket as it is
OutputFormatVNoClear(d, sendOk) ==
    LET sent == [d EXCEPT !.writes = @ + 1, !.wrote = @ \cup {SessionConn(d)}]
    IN IF sendOk THEN sent ELSE CloseFd(sent, sent.session)

OutputFormatV(d, sendOk) ==
    IF d.session = -1 THEN d
    ELSE LET sent == [d EXCEPT !.writes = @ + 1, !.wrote = @ \cup {SessionConn(d)}]
         IN IF sendOk THEN sent
            ELSE [CloseFd(sent, sent.session) EXCEPT !.session = -1]

\* the outputs k .. n of one command, the f-th of which fails to be sent (0: none)
RECURSIVE WriteOutputs(_, _, _, _)
WriteOutputs(d, k, n, f) ==
    IF k > n THEN d ELSE WriteOutputs(OutputFormatV(d, k # f), k + 1, n, f)

(***************************************************************************)
(* Daemon::InitializeSessionSocket (Linux build).  outcome: accept() fails,*)
(* fcntl(F_GETFD) fails, fcntl(F_SETFD) fails, or all three succeed.       *)
(***************************************************************************)
AcceptOutcomes == {"ok", "accept-fail", "getfd-fail", "setfd-fail"}

\* (mutant) the previous session is not closed when it is replaced
InitializeSessionSocketLeak(d, outcome) ==
    IF outcome = "accept-fail" THEN d
    ELSE LET new == LowestFree(d.fdtab)
             d1 == [d EXCEPT !.fdtab[new] = d.nAccepted + 1, !.closes = Append(@, 0),
                             !.nAccepted = @ + 1]
         IN IF outcome # "ok" THEN CloseFd(d1, new) ELSE [d1 EXCEPT !.session = new]

\* (mutant) a connection that arrives while a session exists is rejected
InitializeSessionSocketFirstWins(d, outcome) ==
    IF outcome = "accept-fail" THEN d
    ELSE LET new == LowestFree(d.fdtab)
             d1 == [d EXCEPT !.fdtab[new] = d.nAccepted + 1, !.closes = Append(@, 0),
                             !.nAccepted = @ + 1]
         IN IF outcome # "ok" \/ d1.session # -1 THEN CloseFd(d1, new)
            ELSE [d1 EXCEPT !.session = new]

\* variant: the previous session is closed before the new connection is accepted
InitializeSessionSocketCloseFirst(d, outcome) ==
    LET d0 == IF d.session # -1 THEN [CloseFd(d, d.session) EXCEPT !.session = -1] ELSE d
    IN IF outcome = "accept-fail" THEN d0
       ELSE LET new == LowestFree(d0.fdtab)
                d1 == [d0 EXCEPT !.fdtab[new] = d0.nAccepted + 1, !.closes = Append(@, 0),
                                 !.nAccepted = @ + 1]
            IN IF outcome # "ok" THEN CloseFd(d1, new) ELSE [d1 EXCEPT !.session = new]

\* variant: the new connection takes over the descriptor number of the session it replaces
InitializeSessionSocketSameFd(d, outcome) ==
    IF outcome = "accept-fail" THEN d
    ELSE IF outcome = "ok" /\ d.session # -1
    THEN LET d0 == CloseFd(d, d.session)
         IN [d0 EXCEPT !.fdtab[d.session] = d.nAccepted + 1, !.closes = Append(@, 0),
                       !.nAccepted = @ + 1]
    ELSE LET new == LowestFree(d.fdtab)
             d1 == [d EXCEPT !.fdtab[new] = d.nAccepted + 1, !.closes = Append(@, 0),
                             !.nAccepted = @ + 1]
         IN IF outcome # "ok" THEN CloseFd(d1, new) ELSE [d1 EXCEPT !.session = new]

InitializeSessionSocket(d, outcome) ==
    IF outcome = "accept-fail" THEN d
    ELSE LET new == LowestFree(d.fdtab)
             d1 == [d EXCEPT !.fdtab[new] = d.nAccepted + 1, !.closes = Append(@, 0),
                             !.nAccepted = @ + 1]
         IN IF outcome # "ok" THEN CloseFd(d1, new)
            ELSE [(IF d1.session # -1 THEN CloseFd(d1, d1.session) ELSE d1)
                     EXCEPT !.session = new]

(***************************************************************************)
(* Daemon::createListenSocketOrDie (not Android), SetUp, TearDown          *)
(***************************************************************************)
SetUpOutcomes == {"ok", "socket-fail", "open-fail", "flock-fail", "bind-fail", "listen-fail"}

\* variant: SetUp does not look at mListenSocket
SetUpResultAgain(d, outcome) ==
    IF outcome = "socket-fail" THEN [d |-> d, died |-> TRUE]
    ELSE LET s == LowestFree(d.fdtab)
             d1 == [d EXCEPT !.fdtab[s] = -1, !.listen = s]
         IN IF outcome = "open-fail" THEN [d |-> d1, died |-> TRUE]
            ELSE LET l == LowestFree(d1.fdtab)
                     d2 == [d1 EXCEPT !.fdtab[l] = -2, !.lock = l]
                 IN [d |-> d2, died |-> outcome # "ok"]

\* the members when SetUp returns or the process dies; died tells which
SetUpResult(d, outcome) ==
    IF d.listen # -1 THEN [d |-> d, died |-> FALSE]
    ELSE IF outcome = "socket-fail" THEN [d |-> d, died |-> TRUE]
    ELSE LET s == LowestFree(d.fdtab)
             d1 == [d EXCEPT !.fdtab[s] = -1, !.listen = s]
         IN IF outcome = "open-fail" THEN [d |-> d1, died |-> TRUE]
            ELSE LET l == LowestFree(d1.fdtab)
                     d2 == [d1 EXCEPT !.fdtab[l] = -2, !.lock = l]
                 IN [d |-> d2, died |-> outcome # "ok"]

\* variant: TearDown leaves the session descriptor open
TearDownResultKeepSession(d) ==
    LET d2 == IF d.listen # -1 THEN [CloseFd(d, d.listen) EXCEPT !.listen = -1] ELSE d
    IN IF d2.lock # -1 THEN [CloseFd(d2, d2.lock) EXCEPT !.lock = -1] ELSE d2

\* variant: TearDown forgets the lock descriptor without closing it
TearDownResultKeepLock(d) ==
    LET d1 == IF d.session # -1 THEN [CloseFd(d, d.session) EXCEPT !.session = -1] ELSE d
        d2 == IF d1.listen # -1 THEN [CloseFd(d1, d1.listen) EXCEPT !.listen = -1] ELSE d1
    IN [d2 EXCEPT !.lock = -1]

\* Daemon::TearDown (not Android)
TearDownResult(d) ==
    LET d1 == IF d.session # -1 THEN [CloseFd(d, d.session) EXCEPT !.session = -1] ELSE d
        d2 == IF d1.listen # -1 THEN [CloseFd(d1, d1.listen) EXCEPT !.listen = -1] ELSE d1
    IN IF d2.lock # -1 THEN [CloseFd(d2, d2.lock) EXCEPT !.lock = -1] ELSE d2

\* the members and descriptors after an operation
Commit(d) ==
    /\ mListenSocket' = d.listen
    /\ mSessionSocket' = d.session
    /\ mDaemonLock' = d.lock
    /\ fdtab' = d.fdtab
    /\ closes' = d.closes
    /\ nAccepted' = d.nAccepted
    /\ badClose' = d.badClose

SetUp(outcome) ==
    /\ alive
    /\ UNCHANGED startVars
    /\ (mListenSocket # -1) => outcome = "ok"
    /\ LET res == SetUpResult(DState, outcome)
       IN /\ Commit(res.d)
          /\ alive' = ~res.died
    /\ ev' = [NoEvent EXCEPT !.op = "SetUp", !.sessionBefore = SessionConn(DState),
                             !.hadListen = mListenSocket # -1,
                             !.changed = SetUpResult(DState, outcome).d # DState,
                             !.prev = ev.op,
                             !.latest = ev.latest]
    /\ UNCHANGED <<ctx, mfgEnable, rcp, txPowerSet, ccaCfg, radio, last>>

TearDown ==
    /\ alive
    /\ UNCHANGED startVars
    /\ Commit(TearDownResult(DState))
    /\ ctx' = NoCtx
    /\ ev' = [NoEvent EXCEPT !.op = "TearDown", !.sessionBefore = SessionConn(DState),
                             !.latest = ev.latest]
    /\ UNCHANGED <<alive, mfgEnable, rcp, txPowerSet, ccaCfg, radio, last>>

(***************************************************************************)
(* Daemon::Update and the select() of the mainloop: the descriptors        *)
(* registered, and which of them are reported readable and errored         *)
(***************************************************************************)
Registered == {mListenSocket, mSessionSocket} \ {-1}

Update(rd, err) ==
    /\ alive
    /\ UNCHANGED startVars
    /\ ~ctx.valid
    /\ rd \subseteq Registered
    /\ err \subseteq Registered
    /\ (mListenSocket \in rd /\ mListenSocket \notin err) => nAccepted < MaxConn
    /\ ctx' = [valid |-> TRUE, rd |-> rd, err |-> err]
    /\ UNCHANGED <<mListenSocket, mSessionSocket, mDaemonLock, alive, fdtab, closes,
                   nAccepted, badClose, ev, mfgEnable, rcp, txPowerSet, ccaCfg, radio, last>>

(***************************************************************************)
(* The CLI behind otCliInputLine: the line's command is looked up in       *)
(* kCommands and run; each of its outputs and the closing result line is   *)
(* one OutputFormatV call                                                  *)
(***************************************************************************)
NoLine == [cmd |-> "none", args |-> <<>>]

RunCommand(line, r) ==
    CASE line.cmd = "mfgcmd" -> RunMfgCmd(line.args, r)
      [] line.cmd = "seteui64" -> RunSetEui64(line.args, OT_ERROR_NONE)
      [] line.cmd = "ccacfg" -> RunCcaCfg(line.args)

\* the number of OutputFormatV calls of the line just run
OutputCount(lastRun) == Len(lastRun.out) + 1

(***************************************************************************)
(* Daemon::Process (CLI enabled).  acc: the outcome of                     *)
(* InitializeSessionSocket; rd: the result of read(); line: the line read; *)
(* f: which output of the line cannot be sent (0: none).  A parameter that *)
(* the tick does not use is "none" / NoLine / 0.                           *)
(***************************************************************************)
ReadResults == {"data", "eof", "error"}

\* sizeof(buffer), OPENTHREAD_CONFIG_CLI_MAX_LINE_LENGTH
SizeofLineBuffer == 3

\* variant: the whole buffer is offered to read()
ReadRequestWhole == SizeofLineBuffer

\* the count handed to read(): one byte is left for the null terminator
ReadRequest == SizeofLineBuffer - 1

\* what read() returns: -1, 0, or the number of bytes read, at most the count asked for
ReadLens(rd) ==
    IF rd = "data" THEN 1..ReadRequest ELSE IF rd = "error" THEN {-1} ELSE {0}

\* (mutant) the session descriptor is closed and mSessionSocket keeps its value
CloseSessionKeepFd(d) == CloseFd(d, d.session)

\* close(mSessionSocket); mSessionSocket = -1 (lines 1002-1003 and 1027-1028)
CloseSession(d) == [CloseFd(d, d.session) EXCEPT !.session = -1]

\* the connections that d has closed and the daemon's state has not
ClosedIn(d) ==
    { k \in 1..Len(d.closes) : d.closes[k] > (IF k <= Len(closes) THEN closes[k] ELSE 0) }

\* (mutant) the listening socket is tested for readable before it is tested for error
ListenStepReadFirst(d, acc) ==
    IF d.listen \in ctx.rd
    THEN [d |-> InitializeSessionSocket(d, acc), died |-> d.listen \in ctx.err]
    ELSE [d |-> d, died |-> d.listen \in ctx.err]

\* lines 989-996: the listening socket errored (the process dies), readable, or neither
ListenStep(d, acc) ==
    IF d.listen \in ctx.err THEN [d |-> d, died |-> TRUE]
    ELSE IF d.listen \in ctx.rd THEN [d |-> InitializeSessionSocket(d, acc), died |-> FALSE]
    ELSE [d |-> d, died |-> FALSE]

\* the tick up to the test of the session descriptor
AfterListen(d, acc) == ListenStep(d, acc).d

SessionErrored(d) == d.session # -1 /\ d.session \in ctx.err
\* variant: a readable session descriptor is read whether or not it is errored
SessionReadAlsoErrored(d) == d.session # -1 /\ d.session \in ctx.rd

SessionRead(d) == d.session # -1 /\ d.session \notin ctx.err /\ d.session \in ctx.rd

\* what a tick was handed and what it has done when it ends with d
TickEvent(d) ==
    [NoEvent EXCEPT !.op = "Process",
                    !.listenReadable = mListenSocket # -1 /\ mListenSocket \in ctx.rd,
                    !.listenErr = mListenSocket # -1 /\ mListenSocket \in ctx.err,
                    !.sessionRd = mSessionSocket # -1 /\ mSessionSocket \in ctx.rd,
                    !.sessionBefore = SessionConn(DState),
                    !.accepted = d.nAccepted - nAccepted,
                    !.closedConns = ClosedIn(d),
                    !.stale = (ctx.rd \cup ctx.err) \ {mListenSocket, mSessionSocket} # {},
                    !.hadListen = mListenSocket # -1,
                    !.changed = [d EXCEPT !.writes = 0, !.wrote = {}] # DState,
                    !.writes = d.writes,
                    !.wrote = d.wrote,
                    !.latest = ev.latest]

\* the tick in which DieNowWithMessage("daemon socket error") ends the process
ProcessDie ==
    /\ alive
    /\ UNCHANGED startVars
    /\ ctx.valid
    /\ mListenSocket # -1
    /\ \E acc \in AcceptOutcomes :
          LET res == ListenStep(DState, acc)
          IN /\ res.died
             /\ Commit(res.d)
             /\ ev' = TickEvent(res.d)
    /\ alive' = FALSE
    /\ ctx' = NoCtx
    /\ UNCHANGED <<mfgEnable, rcp, txPowerSet, ccaCfg, radio, last>>

Process(acc, rd, line, r, f) ==
    /\ alive
    /\ UNCHANGED startVars
    /\ ctx.valid
    /\ LET idle == mListenSocket = -1
           lr == ~idle /\ mListenSocket \in ctx.rd
           d1 == IF idle THEN DState ELSE AfterListen(DState, acc)
           err == ~idle /\ SessionErrored(d1)
           reads == ~idle /\ SessionRead(d1)
           d2 == IF err \/ (reads /\ rd # "data")
                 THEN CloseSession(d1)
                 ELSE d1
       IN /\ (acc = "none") <=> ~lr
          /\ idle \/ ~ListenStep(DState, acc).died
          /\ (rd = "none") <=> ~reads
          /\ (line = NoLine) <=> (rd # "data")
          /\ (rd # "data") => f = 0
          /\ IF rd = "data"
             THEN /\ RunCommand(line, r)
                  /\ f <= OutputCount(last')
                  /\ LET d3 == WriteOutputs(d2, 1, OutputCount(last'), f)
                     IN /\ Commit(d3)
                        /\ \E n \in ReadLens(rd) :
                             ev' = [TickEvent(d3) EXCEPT
                                    !.accept = acc, !.sessionErr = err,
                                    !.readConn = SessionConn(d1), !.readResult = rd,
                                    !.readLen = n, !.nulAt = n,
                                    !.dispatched = TRUE, !.failAt = f,
                                    !.latest = IF acc = "ok" THEN d1.nAccepted ELSE ev.latest]
             ELSE /\ Commit(d2)
                  /\ ev' = [TickEvent(d2) EXCEPT
                              !.accept = acc, !.sessionErr = err,
                              !.readConn = IF reads THEN SessionConn(d1) ELSE 0,
                              !.readResult = rd,
                              !.readLen = CHOOSE n \in ReadLens(rd) : TRUE,
                              !.latest = IF acc = "ok" THEN d1.nAccepted ELSE ev.latest]
                  /\ UNCHANGED <<mfgEnable, rcp, txPowerSet, ccaCfg, radio, last>>
    /\ ctx' = NoCtx
    /\ UNCHANGED alive

\* CLI output produced outside Daemon::Process (Daemon::OutputFormat called by the
\* CLI for asynchronous output)
OutputFormat(sendOk) ==
    /\ alive
    /\ UNCHANGED startVars
    /\ LET d == OutputFormatV(DState, sendOk)
       IN /\ Commit(d)
          /\ ev' = [NoEvent EXCEPT !.op = "OutputFormat",
                                   !.sessionBefore = SessionConn(DState),
                                   !.writes = d.writes, !.wrote = d.wrote,
                                   !.closedConns = ClosedIn(d),
                                   !.failAt = IF d.writes = 1 /\ ~sendOk THEN 1 ELSE 0,
                                   !.latest = ev.latest]
    /\ UNCHANGED <<alive, ctx, mfgEnable, rcp, txPowerSet, ccaCfg, radio, last>>

(***************************************************************************)
(* The daemon: SetUp, TearDown, mainloop ticks that run the lines clients  *)
(* send, and asynchronous output                                           *)
(***************************************************************************)
Lines ==
    { [cmd |-> "mfgcmd", args |-> a] : a \in { <<0>>, <<1>>, <<256>>, <<257>>, <<1, 0>> } }
    \cup { [cmd |-> "ccacfg", args |-> <<>>] }

\* the outputs of a line that may be the one that cannot be sent
MaxFail == 2

SetUpStep == \E outcome \in SetUpOutcomes : SetUp(outcome)

UpdateStep == \E rd \in SUBSET Registered, err \in SUBSET Registered : Update(rd, err)

ProcessStep ==
    \E acc \in AcceptOutcomes \cup {"none"}, rd \in ReadResults \cup {"none"},
       line \in Lines \cup {NoLine}, f \in 0..MaxFail :
        Process(acc, rd, line, RspOk, f)

OutputStep == \E sendOk \in BOOLEAN : OutputFormat(sendOk)

Next == SetUpStep \/ TearDown \/ UpdateStep \/ ProcessDie \/ ProcessStep \/ OutputStep

Spec == Init /\ [][Next]_vars

(***************************************************************************)
(* Daemon::OutputFormatV: the formatting into buf[N], N being              *)
(* OPENTHREAD_CONFIG_CLI_MAX_LINE_LENGTH.  A buffer is a function on       *)
(* 0 .. N-1 whose bytes are -1 until written; written is the set of        *)
(* offsets written, inside the buffer or not.                              *)
(***************************************************************************)
\* static constexpr char truncatedMsg[] = "(truncated ...)"
truncatedMsg == <<40, 116, 114, 117, 110, 99, 97, 116, 101, 100, 32, 46, 46, 46, 41>>

\* sizeof(truncatedMsg): the characters and the terminating NUL
SizeofTruncatedMsg == Len(truncatedMsg) + 1

MinOf(a, b) == IF a < b THEN a ELSE b

\* vsnprintf(buf, N, aFormat, aArguments) of an output whose formatted text is text
vsnprintf(text, N) ==
    LET n == MinOf(Len(text), N - 1)
    IN [rval |-> Len(text),
        buf |-> [k \in 0..(N - 1) |-> IF k < n THEN text[k + 1] ELSE IF k = n THEN 0 ELSE -1],
        written |-> 0..n]

\* memcpy(buf + off, src, sizeof src), src being text with its NUL
MemcpyStr(b, off, text) ==
    [b EXCEPT !.buf = [k \in DOMAIN b.buf |->
                          IF k >= off /\ k < off + Len(text) THEN text[k - off + 1]
                          ELSE IF k = off + Len(text) THEN 0
                          ELSE b.buf[k]],
              !.written = @ \cup (off..(off + Len(text)))]

\* (mutant) the marker is copied without room for its NUL
FormatBufNoNul(text, N) ==
    LET v == vsnprintf(text, N)
    IN IF v.rval >= N
       THEN [MemcpyStr(v, N - Len(truncatedMsg), truncatedMsg) EXCEPT !.rval = N - 1]
       ELSE v

\* lines 719-726: the buffer and the length to send
FormatBuf(text, N) ==
    LET v == vsnprintf(text, N)
    IN IF v.rval >= N
       THEN [MemcpyStr(v, N - SizeofTruncatedMsg, truncatedMsg) EXCEPT !.rval = N - 1]
       ELSE v

\* the bytes handed to send(): buf[0 .. rval-1]
SentBytes(b) == [k \in 1..b.rval |-> b.buf[k - 1]]

\* the smallest buffer the static_assert admits, and how much larger it may be
MinBuf == SizeofTruncatedMsg + 1
BufSlack == 2
\* how much longer than the buffer a text may be
TextSlack == 3

BufSizes == MinBuf..(MinBuf + BufSlack)
Texts(N) == { [k \in 1..len |-> c] : len \in 0..(N + TextSlack), c \in {97, 46} }

FormatInputs == UNION { { <<N, t>> : t \in Texts(N) } : N \in BufSizes }

InitFmt ==
    /\ DaemonInit
    /\ StartInit
    /\ mfgEnable = 0 /\ rcp = 0 /\ txPowerSet = NoValue
    /\ ccaCfg = DefaultCcaCfg
    /\ radio = DefaultRadio
    /\ \E a \in FormatInputs : last = Typed("format", a)

\* one output formatted and sent to a session
FormatCommand ==
    /\ last.cmd = "format"
    /\ LET b == FormatBuf(last.args[2], last.args[1])
       IN last' = [last EXCEPT !.cmd = "OutputFormatV", !.out = SentBytes(b),
                               !.plat = <<PlatCall("written", b.written)>>]
    /\ UNCHANGED <<mfgEnable, rcp, txPowerSet, ccaCfg, radio, daemonVars, startVars>>

NextFmt == FormatCommand
SpecFmt == InitFmt /\ [][NextFmt]_vars

(***************************************************************************)
(* Two daemon processes of one interface (not Android), each running       *)
(* SetUp and TearDown one system call at a time.  pc names the call the    *)
(* process makes next: SetUp is "idle" (socket), "open", "flock",          *)
(* "unlink", "bind", "listen"; "listening" is SetUp returned; TearDown is  *)
(* "td-unlink", "td-unlock" after the listening socket is closed.  A       *)
(* process that died is "dead": its descriptors are closed and its lock    *)
(* released by the system.                                                 *)
(***************************************************************************)
\* where a process goes after a call of createListenSocketOrDie / SetUp that may
\* make it die
AfterCall(ok, next) == IF ok THEN next ELSE "dead"

\* (mutant) the result of flock() is not looked at
AfterFlockIgnored(ok) == "unlink"

\* createListenSocketOrDie: after flock(mDaemonLock, LOCK_EX | LOCK_NB)
AfterFlock(ok) == AfterCall(ok, "unlink")

\* the lock and the socket path when process i leaves by DieNow
Exit(i) == lockHolder' = IF lockHolder = i THEN 0 ELSE lockHolder

Goes(i, pc) ==
    inst' = [inst EXCEPT ![i].pc = pc, ![i].alive = pc # "dead"]

\* socket(), open(lockfile), bind(), listen(): ok is the call's result
StartCall(i, ok) ==
    /\ inst[i].alive
    /\ inst[i].pc \in {"idle", "open", "bind", "listen"}
    /\ LET next == CASE inst[i].pc = "idle" -> "open"
                     [] inst[i].pc = "open" -> "flock"
                     [] inst[i].pc = "bind" -> "listen"
                     [] inst[i].pc = "listen" -> "listening"
       IN /\ Goes(i, AfterCall(ok, next))
          /\ IF ok THEN UNCHANGED lockHolder ELSE Exit(i)
          /\ sockFile' = IF ok /\ inst[i].pc = "bind" THEN i ELSE sockFile

\* variant: the lock is not exclusive, flock() succeeds while another process holds it
FlockShared(i, ok) ==
    /\ inst[i].alive
    /\ inst[i].pc = "flock"
    /\ inst' = [inst EXCEPT ![i].pc = AfterFlock(ok), ![i].alive = AfterFlock(ok) # "dead",
                            ![i].lockFailed = ~ok]
    /\ lockHolder' = IF ok THEN i ELSE lockHolder
    /\ UNCHANGED sockFile

\* flock(mDaemonLock, LOCK_EX | LOCK_NB): fails when another process holds the lock,
\* and may fail otherwise
Flock(i, ok) ==
    /\ inst[i].alive
    /\ inst[i].pc = "flock"
    /\ ok => lockHolder = 0
    /\ inst' = [inst EXCEPT ![i].pc = AfterFlock(ok), ![i].alive = AfterFlock(ok) # "dead",
                            ![i].lockFailed = ~ok]
    /\ lockHolder' = IF ok THEN i ELSE lockHolder
    /\ UNCHANGED sockFile

\* (void)unlink(sockname.sun_path) before bind
Unlink(i) ==
    /\ inst[i].alive
    /\ inst[i].pc = "unlink"
    /\ Goes(i, "bind")
    /\ sockFile' = 0
    /\ UNCHANGED lockHolder

\* TearDown: close(mListenSocket)
TearDownClose(i) ==
    /\ inst[i].alive
    /\ inst[i].pc = "listening"
    /\ Goes(i, "td-unlink")
    /\ UNCHANGED <<lockHolder, sockFile>>

\* TearDown: the socket file is removed unless the reset is a software reset
TearDownUnlink(i, software) ==
    /\ inst[i].alive
    /\ inst[i].pc = "td-unlink"
    /\ Goes(i, "td-unlock")
    /\ sockFile' = IF software THEN sockFile ELSE 0
    /\ UNCHANGED lockHolder

\* TearDown: flock(mDaemonLock, LOCK_UN); close(mDaemonLock)
TearDownUnlock(i) ==
    /\ inst[i].alive
    /\ inst[i].pc = "td-unlock"
    /\ Goes(i, "idle")
    /\ lockHolder' = IF lockHolder = i THEN 0 ELSE lockHolder
    /\ UNCHANGED sockFile

\* the single daemon of the other specifications stays as it is
OthersUnchanged == UNCHANGED <<cliVars, daemonVars>>

StartCallStep == OthersUnchanged /\ \E i \in Instances, ok \in BOOLEAN : StartCall(i, ok)
FlockStep == OthersUnchanged /\ \E i \in Instances, ok \in BOOLEAN : Flock(i, ok)
UnlinkStep == OthersUnchanged /\ \E i \in Instances : Unlink(i)
TearDownCloseStep == OthersUnchanged /\ \E i \in Instances : TearDownClose(i)
TearDownUnlinkStep ==
    OthersUnchanged /\ \E i \in Instances, software \in BOOLEAN : TearDownUnlink(i, software)
TearDownUnlockStep == OthersUnchanged /\ \E i \in Instances : TearDownUnlock(i)

NextTwo ==
    \/ StartCallStep
    \/ FlockStep
    \/ UnlinkStep
    \/ TearDownCloseStep
    \/ TearDownUnlinkStep
    \/ TearDownUnlockStep

SpecTwo == Init /\ [][NextTwo]_vars

(***************************************************************************)
(* Properties of the manufacturing commands                                *)
(***************************************************************************)
LastIsMfg == last.cmd = "mfgcmd"

NotEnabledItem == Item("MFG command not enabled", 0)

\* C1: while the enable flag is 0, every mfgcmd invocation other than one
\* argument whose value is 0 or 1 prints the "not enabled" message, returns
\* success, makes no transport call and leaves the flag at 0.
C1_DisabledRejectsAll ==
    (/\ LastIsMfg
     /\ last.enableBefore = 0
     /\ ~(Len(last.args) = 1 /\ last.args[1] \in {0, 1}))
    => (/\ last.out = <<NotEnabledItem>>
        /\ last.error = OT_ERROR_NONE
        /\ last.calls = <<>>
        /\ mfgEnable = 0)

\* C5: for every set-int8 opcode and every integer value outside the opcode's
\* [min, max], the command returns invalid-arguments and makes no transport call.
C5_OutOfRangeRejected ==
    \A e \in SetInt8Table :
        (/\ LastIsMfg
         /\ last.enableBefore = 1
         /\ Len(last.args) = 2
         /\ last.args[1] = e[1]
         /\ (last.args[2] < e[2] \/ last.args[2] > e[3]))
        => (last.error = OT_ERROR_INVALID_ARGS /\ last.calls = <<>>)

LastIsTxPowerSet ==
    /\ LastIsMfg
    /\ last.enableBefore = 1
    /\ Len(last.args) = 2
    /\ last.args[1] = MFG_CMD_GET_SET_TXPOWER + 1

LastIsTxPowerGet ==
    /\ LastIsMfg
    /\ last.enableBefore = 1
    /\ last.args = <<MFG_CMD_GET_SET_TXPOWER>>

\* C6: for every v in [-20, 22], the frame of "set TX power v" carries the 8 bit
\* two's complement encoding of 2*v in byte 4, and a get TX power answered with
\* status 0 by an RCP that stored that byte prints exactly v.
C6_TxPowerRoundTrip ==
    /\ (LastIsTxPowerSet /\ last.args[2] \in -20..22)
        => (/\ Len(last.calls) = 1
            /\ last.calls[1].req[4] = (2 * last.args[2]) % 256)
    /\ (/\ LastIsTxPowerGet
        /\ txPowerSet.set
        /\ txPowerSet.v \in -20..22
        /\ last.calls[1].len >= 5
        /\ last.calls[1].rsp[3] = 0)
        => (last.error = OT_ERROR_NONE /\ last.out = <<Item("int", txPowerSet.v)>>)

\* the negative end of the range has gone through set and get
C6_Witness ==
    /\ LastIsTxPowerGet
    /\ txPowerSet.set
    /\ txPowerSet.v = -20
    /\ rcp = 216
    /\ last.out = <<Item("int", -20)>>

\* the response length a handler's decoding needs
RequiredLen(op) ==
    IF op \in MfgGetOpcodes THEN 5
    ELSE IF op = MFG_CMD_GET_RX_RESULT THEN 11
    ELSE 4

\* C7: for every recognised opcode whose handler made the transport call, a
\* response with a non-zero status byte or shorter than the required length
\* makes the command return failure and print FAILED.
C7_BadResponseFails ==
    (/\ LastIsMfg
     /\ last.enableBefore = 1
     /\ Len(last.args) \in 1..11
     /\ ToUint8(last.args[1]) \in MfgOpcodes
     /\ Len(last.calls) = 1
     /\ (\/ last.calls[1].rsp[3] # 0
         \/ last.calls[1].len < RequiredLen(ToUint8(last.args[1]))))
    => (last.error = OT_ERROR_FAILED /\ last.out = <<Item("FAILED", 0)>>)

(***************************************************************************)
(* Properties of seteui64                                                  *)
(***************************************************************************)
LastIsEui == last.cmd = "seteui64"

\* the characters 0-9, a-f, A-F with their values
HexDigitValue ==
    [c \in {48, 49, 50, 51, 52, 53, 54, 55, 56, 57} |-> c - 48]
    @@ (97 :> 10 @@ 98 :> 11 @@ 99 :> 12 @@ 100 :> 13 @@ 101 :> 14 @@ 102 :> 15)
    @@ (65 :> 10 @@ 66 :> 11 @@ 67 :> 12 @@ 68 :> 13 @@ 69 :> 14 @@ 70 :> 15)

\* "0x" followed by 16 hexadecimal digits
IsEuiForm(str) ==
    /\ Len(str) = 18
    /\ str[1] = 48
    /\ str[2] = 120
    /\ \A k \in 3..18 : str[k] \in DOMAIN HexDigitValue

LowerHexChar == <<48, 49, 50, 51, 52, 53, 54, 55, 56, 57, 97, 98, 99, 100, 101, 102>>

\* the 16 lower case hexadecimal digits of 8 bytes
HexEncode(m8) ==
    [k \in 1..16 |-> LowerHexChar[1 + (IF k % 2 = 1 THEN m8[(k - 1) \div 2] \div 16
                                       ELSE m8[(k - 1) \div 2] % 16)]]

ToLowerChar(c) == IF c >= 65 /\ c <= 90 THEN c + 32 ELSE c

ValidEuiTyped == LastIsEui /\ Len(last.args) = 1 /\ IsEuiForm(last.args[1])

\* C8: seteui64 calls the platform only for exactly one argument of the form
\* "0x" + 16 hex digits; every other invocation returns a non-success status
\* and makes no platform call.
C8_OnlyExactFormAccepted ==
    (LastIsEui /\ ~ValidEuiTyped) => (last.plat = <<>> /\ last.error # OT_ERROR_NONE)

\* C9: for every valid argument the 8 bytes passed to the platform are the
\* big-endian digit pairs, byte i = 16 * value(digit 2i) + value(digit 2i+1),
\* and encoding them as hex gives back the digits up to letter case.
C9_EuiBytes ==
    ValidEuiTyped =>
        (/\ Len(last.plat) = 1
         /\ \A i \in 0..7 :
                last.plat[1].arg[i] = 16 * HexDigitValue[last.args[1][3 + 2 * i]]
                                      + HexDigitValue[last.args[1][4 + 2 * i]]
         /\ HexEncode(last.plat[1].arg)
                = [k \in 1..16 |-> ToLowerChar(last.args[1][2 + k])])

\* "0x89ABCDEFfedcba01" reached the platform as 89 AB CD EF FE DC BA 01
C9_Witness ==
    /\ ValidEuiTyped
    /\ last.args[1] = EuiMixed
    /\ Len(last.plat) = 1
    /\ last.plat[1].arg = [i \in 0..7 |-> <<137, 171, 205, 239, 254, 220, 186, 1>>[i + 1]]
    /\ last.error = OT_ERROR_NONE

(***************************************************************************)
(* Properties of ccacfg                                                    *)
(***************************************************************************)
LastIsCca == last.cmd = "ccacfg"

CcaSetCalled == Len(last.plat) = 1 /\ last.plat[1].fn = "otPlatRadioCcaConfigValue:set"

\* the configuration the four arguments state
CcaTyped(aArgs) ==
    [mCcaMode |-> aArgs[1], mCca1Threshold |-> aArgs[2], mCca2CorrThreshold |-> aArgs[3],
     mCca2MinNumOfCorrTh |-> aArgs[4]]

\* C10: ccacfg with 4 arguments calls the platform set primitive if and only if
\* the hexadecimal mode is in {1,2,3,4,0xFF} and minCorrelationCount2 is at most
\* 6; a rejected set leaves the stored configuration unchanged; an accepted
\* configuration is the one a following 0-argument ccacfg reports.
C10_CcaSetValidated ==
    /\ (LastIsCca /\ Len(last.args) = 4)
        => (/\ CcaSetCalled <=> (last.args[1] \in {1, 2, 3, 4, 255} /\ last.args[4] <= 6)
            /\ ~CcaSetCalled => ccaCfg = last.ccaBefore
            /\ CcaSetCalled => ccaCfg = CcaTyped(last.args))
    /\ (LastIsCca /\ Len(last.args) = 0)
        => last.out = <<Item("CCA Configuration:", 0),
                        Item("CCA Mode type", ccaCfg.mCcaMode),
                        Item("CCA1 Threshold Value", ccaCfg.mCca1Threshold),
                        Item("CCA2 Correlation Threshold Value", ccaCfg.mCca2CorrThreshold),
                        Item("CCA2 Minimim Number of Correlation Threshold Value",
                             ccaCfg.mCca2MinNumOfCorrTh)>>

(***************************************************************************)
(* Properties of the daemon                                                *)
(***************************************************************************)
\* the flag the last command had to leave, were the flag changed by nothing but a
\* one-argument mfgcmd whose argument is 0 or 1
EnableAfterLast ==
    IF last.cmd = "mfgcmd" /\ Len(last.args) = 1 /\ last.args[1] \in {0, 1}
    THEN last.args[1]
    ELSE last.enableBefore

\* C2: the manufacturing enable flag starts Disabled and is always 0 or 1; it
\* changes only by a single-argument mfgcmd whose integer argument is 0 (to
\* Disabled) or 1 (to Enabled); a single-argument mfgcmd with any other integer,
\* a multi-argument mfgcmd, any other command and any session event leave it
\* unchanged.
C2_FlagChangesOnlyByToggle ==
    /\ mfgEnable \in {0, 1}
    /\ (last = NoCommand) => mfgEnable = 0
    /\ mfgEnable = EnableAfterLast

\* the listening socket was readable, a session existed, and the accept succeeded
Replaced ==
    /\ ev.op = "Process"
    /\ ev.listenReadable
    /\ ev.sessionBefore # 0
    /\ ev.accept = "ok"

\* no descriptor of the process is connection k
ConnClosed(k) == \A fd \in DOMAIN fdtab : fdtab[fd] # k

\* C3: in a poll tick where the listen descriptor is readable and a session
\* exists, a successful accept closes the previous session descriptor and makes
\* the newly accepted connection the session; from then on input is read only
\* from, and output written only to, the new connection.
C3_Replacement ==
    /\ Replaced
        => (/\ closes[ev.sessionBefore] = 1
            /\ ConnClosed(ev.sessionBefore)
            /\ ev.latest = nAccepted
            /\ ev.latest # ev.sessionBefore
            /\ mSessionSocket # -1 => fdtab[mSessionSocket] = ev.latest)
    /\ ev.readConn # 0 => ev.readConn = ev.latest
    /\ ev.wrote \subseteq {ev.latest}
    /\ mSessionSocket # -1 => fdtab[mSessionSocket] = ev.latest

\* a second client has replaced the first, which is closed
C3_Witness ==
    /\ Replaced
    /\ ev.sessionBefore = 1
    /\ closes[1] = 1
    /\ mSessionSocket # -1
    /\ fdtab[mSessionSocket] = 2

\* the descriptors that are client connections
ClientFds == { fd \in DOMAIN fdtab : fdtab[fd] >= 1 }

\* C4: at most one client connection descriptor is open, and every descriptor
\* accept ever returned is either the current session descriptor or has been
\* closed exactly once; no descriptor is closed that is not open.
C4_OneClient ==
    /\ Cardinality(ClientFds) <= 1
    /\ ClientFds \subseteq {mSessionSocket}
    /\ Len(closes) = nAccepted
    /\ \A k \in 1..nAccepted :
          IF mSessionSocket # -1 /\ fdtab[mSessionSocket] = k
          THEN closes[k] = 0
          ELSE closes[k] = 1 /\ ConnClosed(k)
    /\ badClose = 0

\* two clients have come and gone, the second closed by a write that failed
C4_Witness ==
    /\ ev.op = "OutputFormat"
    /\ ev.writes = 1
    /\ mSessionSocket = -1
    /\ nAccepted = 2
    /\ closes = <<1, 1>>

(***************************************************************************)
(* Properties of the radio commands                                        *)
(***************************************************************************)
LastIs(cmdName) == last.cmd = cmdName

\* the last command made exactly the platform call fn
OnlyPlatCall(fn) == Len(last.plat) = 1 /\ last.plat[1].fn = fn

IrOutOfRangeItem == Item("OOB IR Threshold FAILED! Invalid Threshold Time", 0)

\* C11: irthold with one integer argument v calls the platform threshold-set
\* primitive if and only if 100 <= v <= 1000; an out-of-range v prints the
\* out-of-range message and leaves the stored threshold unchanged; an accepted v
\* is the value stored, which a 0-argument irthold reports.
C11_IrThresholdValidated ==
    /\ (LastIs("irthold") /\ Len(last.args) = 1)
        => LET v == last.args[1]
           IN /\ OnlyPlatCall("otPlatRadioIRThresholdConfig:set") <=> (100 <= v /\ v <= 1000)
              /\ ~(100 <= v /\ v <= 1000)
                    => (/\ last.out = <<IrOutOfRangeItem>>
                        /\ last.plat = <<>>
                        /\ radio = last.radioBefore)
              /\ (100 <= v /\ v <= 1000) => radio.mIRThreshold = v
    /\ (LastIs("irthold") /\ Len(last.args) = 0)
        => last.out = <<Item("OOB IR Threshold", radio.mIRThreshold)>>

\* the argument counts of a command's documented set and get forms
DocumentedArgc(cmdName) ==
    CASE cmdName \in {"ircfg", "txpwrlimit", "irthold"} -> {0, 1}
      [] cmdName = "ccacfg" -> {0, 4}
      [] cmdName = "seteui64" -> {1}
      [] cmdName \in {"ircmd", "fwversion"} -> {0}

\* C12: for every command of the command table, an invocation whose argument
\* count is that of neither its set form nor its get form returns the
\* invalid-arguments status.
C12_WrongArgcInvalid ==
    (last.cmd \in TableCmds /\ Len(last.args) \notin DocumentedArgc(last.cmd))
        => last.error = OT_ERROR_INVALID_ARGS

(***************************************************************************)
(* Properties of two daemon processes                                      *)
(***************************************************************************)
Listening(i) == inst[i].alive /\ inst[i].pc = "listening"

\* C13: of two daemon processes of one interface, at most one is listening at a
\* time and the one listening holds the lock; a process whose flock() failed has
\* died in SetUp and is not listening.
C13_OneListener ==
    /\ ~(Listening(1) /\ Listening(2))
    /\ \A i \in Instances : Listening(i) => lockHolder = i
    /\ \A i \in Instances :
          inst[i].lockFailed => (~inst[i].alive /\ inst[i].pc = "dead")

\* one process listens and holds the lock, the other tried the lock and died
C13_Witness ==
    /\ Listening(1)
    /\ lockHolder = 1
    /\ inst[2].lockFailed
    /\ ~inst[2].alive

(***************************************************************************)
(* Properties of the output formatting                                     *)
(***************************************************************************)
\* the last len elements of a sequence
Suffix(q, len) == SubSeq(q, Len(q) - len + 1, Len(q))

\* C14: for every formatted output of length L and buffer size N, the number of
\* bytes sent is min(L, N-1) and never more than N-1; when L >= N the bytes sent
\* end with the marker "(truncated ...)"; no byte outside the N-byte buffer is
\* written.
C14_Truncation ==
    LastIs("OutputFormatV")
        => LET N == last.args[1]
               L == Len(last.args[2])
               sent == last.out
           IN /\ Len(sent) = (IF L < N - 1 THEN L ELSE N - 1)
              /\ Len(sent) <= N - 1
              /\ L >= N => Suffix(sent, Len(truncatedMsg)) = truncatedMsg
              /\ L < N => sent = last.args[2]
              /\ last.plat[1].arg \subseteq 0..(N - 1)
              /\ \A k \in 1..Len(sent) : sent[k] > 0

\* an output one byte too long for the buffer was sent with the marker at its end
C14_Witness ==
    /\ LastIs("OutputFormatV")
    /\ Len(last.args[2]) = last.args[1]
    /\ Len(last.out) = last.args[1] - 1
    /\ Suffix(last.out, Len(truncatedMsg)) = truncatedMsg

(***************************************************************************)
(* Properties of the poll tick                                             *)
(***************************************************************************)
\* the listening socket is open
ListenOpen == mListenSocket # -1 /\ fdtab[mListenSocket] = -1

\* C15: in a poll tick where the listen descriptor is reported errored, the
\* process terminates before any accept, session read or session close of that
\* tick, also when the listen descriptor is readable as well or the session
\* descriptor is readable.
C15_ListenErrorFatal ==
    (ev.op = "Process" /\ ev.listenErr)
        => (/\ ~alive
            /\ ev.accepted = 0
            /\ ev.readConn = 0
            /\ ev.closedConns = {}
            /\ ev.writes = 0
            /\ ~ev.dispatched
            /\ SessionConn(DState) = ev.sessionBefore)

\* the process died in a tick whose listen descriptor was errored and readable and
\* whose session descriptor was readable
C15_Witness ==
    /\ ev.op = "Process"
    /\ ev.listenErr
    /\ ev.listenReadable
    /\ ev.sessionRd
    /\ ev.sessionBefore # 0
    /\ ~alive

\* C16: when writing output to the session fails, the session descriptor is closed
\* and cleared, the daemon does not terminate, the listen endpoint stays open, and
\* every later output of the same command is dropped without a write attempt and
\* without a second close.
C16_WriteFailure ==
    (ev.failAt > 0)
        => (/\ alive
            /\ mSessionSocket = -1
            /\ ListenOpen
            /\ ev.writes = ev.failAt
            /\ Cardinality(ev.wrote) = 1
            /\ ev.wrote \subseteq ev.closedConns
            /\ \A k \in ev.wrote : closes[k] = 1
            /\ badClose = 0)

\* the first of the six outputs of ccacfg could not be sent; the other five were
\* dropped
C16_Witness ==
    /\ ev.op = "Process"
    /\ ev.failAt = 1
    /\ LastIs("ccacfg")
    /\ Len(last.out) = 5
    /\ ev.writes = 1
    /\ mSessionSocket = -1

\* the operation closed the session on EOF, a read error, an errored descriptor or
\* a failed write
SessionClosedByEvent ==
    \/ ev.op = "Process" /\ (ev.sessionErr \/ ev.readResult \in {"eof", "error"})
    \/ ev.failAt > 0

\* C17: after a session is closed (EOF, read error, errored descriptor, write
\* failure) the daemon is Listening: alive, the listen endpoint open, no session;
\* a tick that starts without a session, finds the listen descriptor readable and
\* whose accept succeeds ends Connected with the new client as the session.
C17_ListeningAfterClose ==
    /\ SessionClosedByEvent
        => (alive /\ ListenOpen /\ mSessionSocket = -1)
    /\ (/\ ev.op = "Process"
        /\ ev.listenReadable
        /\ ev.accept = "ok"
        /\ ev.sessionBefore = 0
        /\ ~ev.stale)
        => (/\ alive
            /\ ListenOpen
            /\ mSessionSocket # -1
            /\ fdtab[mSessionSocket] = nAccepted
            /\ closes[nAccepted] = 0)

\* a second client became the session after the first was closed on EOF
C17_Witness ==
    /\ ev.op = "Process"
    /\ ev.accept = "ok"
    /\ ev.sessionBefore = 0
    /\ ~ev.stale
    /\ nAccepted = 2
    /\ closes = <<1, 0>>
    /\ mSessionSocket # -1
    /\ fdtab[mSessionSocket] = 2

(***************************************************************************)
(* Properties of the passthrough and of the composite commands             *)
(***************************************************************************)
\* C18: while Enabled, an mfgcmd with exactly 12 arguments whose first argument is
\* not a recognised opcode makes exactly one transport call whose 12 frame bytes
\* are the 12 arguments in order, each reduced to 8 bits, echoes the first
\* outputLen response bytes, returns success and prints neither NOT IMPLEMENTED
\* nor FAILED.
C18_Passthrough ==
    (/\ LastIsMfg
     /\ last.enableBefore = 1
     /\ Len(last.args) = 12
     /\ last.args[1] \notin MfgOpcodes)
        => (/\ Len(last.calls) = 1
            /\ last.calls[1].req = [i \in 0..11 |-> last.args[i + 1] % 256]
            /\ last.out = [i \in 1..last.calls[1].len |->
                              Item("byte", last.calls[1].rsp[i - 1])]
                          \o <<Item("CRLF", 0)>>
            /\ last.error = OT_ERROR_NONE)

\* twelve arguments that need the reduction went out as one frame, and the three
\* bytes of the short response were echoed
C18_Witness ==
    /\ LastIsMfg
    /\ last.enableBefore = 1
    /\ Len(last.args) = 12
    /\ last.args[1] = 99
    /\ last.args[2] = 256
    /\ Len(last.calls) = 1
    /\ last.calls[1].req[11] = 255
    /\ Len(last.out) = 4

(***************************************************************************)
(* Properties of txpwrlimit                                                *)
(***************************************************************************)
\* C19: txpwrlimit with exactly one argument forwards the parsed value (the
\* argument as the 8 bit limit) to the platform set primitive exactly once and
\* returns success, for values in 1..44 and outside; with no argument it calls
\* only the platform get primitive and prints the value; with two or more
\* arguments it makes no platform call and returns invalid-arguments.
C19_TxPowerLimitForwarded ==
    LastIs("txpwrlimit")
        => /\ Len(last.args) = 1
                => (/\ last.plat = <<PlatCall("otPlatRadioSetTxPowerLimit", last.args[1] % 256)>>
                    /\ last.error = OT_ERROR_NONE
                    /\ last.out = <<>>)
           /\ Len(last.args) = 0
                => (/\ last.plat = <<PlatCall("otPlatRadioGetTxPowerLimit", 0)>>
                    /\ last.out = <<Item("int", radio.txPowerLimit)>>
                    /\ last.error = OT_ERROR_NONE
                    /\ radio = last.radioBefore)
           /\ Len(last.args) >= 2
                => (/\ last.plat = <<>>
                    /\ last.out = <<>>
                    /\ last.error = OT_ERROR_INVALID_ARGS
                    /\ radio = last.radioBefore)

\* a limit outside 1..44 was forwarded
C19_Witness ==
    /\ LastIs("txpwrlimit")
    /\ last.args = <<45>>
    /\ last.plat = <<PlatCall("otPlatRadioSetTxPowerLimit", 45)>>
    /\ last.error = OT_ERROR_NONE

\* the fields of a composite command as given on the command line
CompositeInRange(aArgs) ==
    CASE aArgs[1] = MFG_CMD_BURST_TX ->
             Len(aArgs) = 3 /\ aArgs[2] < 8 /\ aArgs[3] > 5
      [] aArgs[1] = MFG_CMD_CONTINOUS_CCA_TEST ->
             Len(aArgs) = 3 /\ aArgs[2] < 2 /\ aArgs[3] < 4
      [] aArgs[1] = MFG_CMD_PHY_TX_TEST_PSDU ->
             Len(aArgs) = 4 /\ aArgs[2] < 8 /\ aArgs[3] > 5 /\ aArgs[4] < 2
      [] OTHER -> FALSE

\* C20: a composite command (burst TX 33: mode < 8, gap > 5; continuous CCA
\* test 49: enable < 2, ccaMode < 4; PHY TX test PSDU 57: count < 8, gap > 5,
\* ack < 2) with a field outside its range returns invalid-arguments and makes
\* no transport call; the transport is called only when every field is in range.
C20_CompositeValidated ==
    (/\ LastIsMfg
     /\ last.enableBefore = 1
     /\ Len(last.args) \in 2..5
     /\ last.args[1] \in {MFG_CMD_BURST_TX, MFG_CMD_CONTINOUS_CCA_TEST,
                          MFG_CMD_PHY_TX_TEST_PSDU})
        => /\ ~CompositeInRange(last.args)
                => (last.error = OT_ERROR_INVALID_ARGS /\ last.calls = <<>>)
           /\ last.calls # <<>> => CompositeInRange(last.args)

\* the argument count an opcode requires
RequiredArgc(op) ==
    IF op \in MfgGetOpcodes \cup {MFG_CMD_GET_RX_RESULT, MFG_CMD_START_RX_TEST} THEN 1
    ELSE IF op \in MfgSetOpcodes THEN 2
    ELSE IF op \in {MFG_CMD_BURST_TX, MFG_CMD_CONTINOUS_CCA_TEST} THEN 3
    ELSE IF op = MFG_CMD_PHY_TX_TEST_PSDU THEN 4
    ELSE 5

\* C21 as stated: while Enabled, for every recognised opcode and every
\* argument count up to and including 12 that differs from the count the
\* opcode requires, the invocation returns a non-success status and makes no
\* transport call.
C21_WrongCountLocal ==
    (/\ LastIsMfg
     /\ last.enableBefore = 1
     /\ Len(last.args) \in 1..12
     /\ last.args[1] \in MfgOpcodes
     /\ Len(last.args) # RequiredArgc(last.args[1]))
        => (last.error # OT_ERROR_NONE /\ last.calls = <<>>)

\* C21, amended: while Enabled, for every recognised opcode and every argument
\* count from 1 to 11 that differs from the count the opcode requires, the
\* invocation returns invalid-arguments, prints nothing and makes no transport
\* call; with exactly 12 arguments the arguments are sent as a direct message.
C21_WrongCountBelowFrame ==
    (/\ LastIsMfg
     /\ last.enableBefore = 1
     /\ Len(last.args) \in 1..12
     /\ last.args[1] \in MfgOpcodes
     /\ Len(last.args) # RequiredArgc(last.args[1]))
        => IF Len(last.args) < payloadLen
           THEN last.error = OT_ERROR_INVALID_ARGS /\ last.calls = <<>> /\ last.out = <<>>
           ELSE Len(last.calls) = 1 /\ last.error = OT_ERROR_NONE

\* start RX test given with a second argument was refused locally
C21_Witness ==
    /\ LastIsMfg
    /\ last.enableBefore = 1
    /\ last.args = <<MFG_CMD_START_RX_TEST, 0>>
    /\ last.error = OT_ERROR_INVALID_ARGS
    /\ last.calls = <<>>

\* C22: while Enabled, an invocation whose first argument is no recognised
\* opcode, with an argument count other than 12 and other than a single 0 or 1,
\* makes no transport call, prints NOT IMPLEMENTED and not FAILED, and returns
\* the not-implemented status.
C22_UnknownOpcode ==
    (/\ LastIsMfg
     /\ last.enableBefore = 1
     /\ Len(last.args) >= 1
     /\ Len(last.args) # 12
     /\ last.args[1] \notin MfgOpcodes
     /\ ~(Len(last.args) = 1 /\ last.args[1] \in {0, 1}))
        => (/\ last.calls = <<>>
            /\ last.out = <<Item("NOT IMPLEMENTED", 0)>>
            /\ last.error = OT_ERROR_NOT_IMPLEMENTED)

\* C23: every mfgcmd invocation makes at most one transport call, whatever the
\* gate state, the opcode, the argument count and the RCP response; a command
\* whose transport call ended in failure made exactly that one call.
C23_AtMostOneCall ==
    LastIsMfg
        => /\ Len(last.calls) <= 1
           /\ last.error = OT_ERROR_FAILED => Len(last.calls) = 1

\* a get whose response came back with a non-zero status: one call, no second one
C23_Witness ==
    /\ LastIsMfg
    /\ last.args = <<MFG_CMD_GET_SET_CHANNEL>>
    /\ last.error = OT_ERROR_FAILED
    /\ Len(last.calls) = 1
    /\ last.calls[1].rsp[3] # 0

\* the opcode carried in byte 1: N for both members of a get/set pair N, N+1
BaseOpcode(op) ==
    IF op \in { MFG_CMD_GET_SET_CHANNEL + 1, MFG_CMD_GET_SET_TXPOWER + 1,
                MFG_CMD_GET_SET_PAYLOAD_SIZE + 1, MFG_CMD_GET_SET_CCA_THRESHOLD + 1 }
    THEN op - 1 ELSE op

\* how many bytes from byte 4 on carry fields of the command
FieldBytes(op) ==
    IF op \in MfgSetOpcodes THEN 1
    ELSE IF op \in {MFG_CMD_BURST_TX, MFG_CMD_CONTINOUS_CCA_TEST} THEN 2
    ELSE IF op = MFG_CMD_PHY_TX_TEST_PSDU THEN 3
    ELSE IF op = MFG_CMD_SET_GENERIC_PARAM THEN 7
    ELSE 0

\* C24: every frame sent by a command other than the passthrough has 12 bytes,
\* byte 0 = 11, byte 1 = the base opcode, byte 3 = 0 and every byte that carries
\* no field of the command = 0; for a get/set pair N, N+1 both frames carry
\* byte 1 = N, with byte 2 = 0 (GET) for N and byte 2 = 1 (SET) for N+1.
C24_FrameLayout ==
    (LastIsMfg /\ Len(last.args) # 12 /\ last.calls # <<>>)
        => LET req == last.calls[1].req
               op == last.args[1] % 256
           IN /\ DOMAIN req = 0..11
              /\ \A i \in 0..11 : req[i] \in 0..255
              /\ req[0] = 11
              /\ req[1] = BaseOpcode(op)
              /\ req[3] = 0
              /\ \A i \in 4..11 : i >= 4 + FieldBytes(op) => req[i] = 0
              /\ op \in MfgGetOpcodes => req[2] = MFG_CMD_ACTION_GET
              /\ op \in MfgSetOpcodes => req[2] = MFG_CMD_ACTION_SET
              /\ op \in {MFG_CMD_START_RX_TEST, MFG_CMD_BURST_TX} => req[2] = 0

\* the set member of the channel pair sent a SET frame carrying the get opcode
C24_Witness ==
    /\ LastIsMfg
    /\ last.args = <<MFG_CMD_GET_SET_CHANNEL + 1, 11>>
    /\ Len(last.calls) = 1
    /\ last.calls[1].req[1] = MFG_CMD_GET_SET_CHANNEL
    /\ last.calls[1].req[2] = MFG_CMD_ACTION_SET
    /\ last.calls[1].req[4] = 11

\* the connection behind the session descriptor when a tick tests it
TestedConn == IF ev.accept = "ok" THEN ev.latest ELSE ev.sessionBefore

\* C25: in a tick where the session descriptor is reported errored (and that
\* the listening socket's error does not end with the process) the session is
\* closed and cleared, no read is performed and no line is dispatched, also
\* when the descriptor is reported readable as well.
C25_ErroredSession ==
    (ev.op = "Process" /\ ~ev.listenErr /\ ev.sessionErr)
        => (/\ mSessionSocket = -1
            /\ TestedConn >= 1
            /\ TestedConn \in ev.closedConns
            /\ closes[TestedConn] = 1
            /\ ev.readResult = "none"
            /\ ev.readConn = 0
            /\ ~ev.dispatched
            /\ ev.writes = 0)

\* the session was reported errored and readable, and was closed unread
C25_Witness ==
    /\ ev.op = "Process"
    /\ ev.sessionErr
    /\ ev.sessionRd
    /\ ev.accept = "none"
    /\ ev.sessionBefore \in ev.closedConns
    /\ mSessionSocket = -1
    /\ ev.readResult = "none"

\* C26: in a tick where the session descriptor is readable and not errored
\* (and that the listening socket's error does not end with the process), one
\* read of at most N-1 bytes (N the size of the line buffer) is performed;
\* a result of 0 or less closes and clears the session and dispatches nothing;
\* a positive result is terminated inside the buffer and dispatched once as
\* one input line, and the session stays open unless a write failure closes it.
C26_ReadableSession ==
    (/\ ev.op = "Process"
     /\ ~ev.listenErr
     /\ ev.accept # "ok"
     /\ ev.sessionBefore >= 1
     /\ ev.sessionRd
     /\ ~ev.sessionErr)
        => /\ ev.readResult \in ReadResults
           /\ ev.readConn = ev.sessionBefore
           /\ ev.readLen <= SizeofLineBuffer - 1
           /\ ev.readLen <= 0
                => (/\ ev.readResult \in {"eof", "error"}
                    /\ ~ev.dispatched
                    /\ ev.nulAt = -1
                    /\ ev.writes = 0
                    /\ mSessionSocket = -1
                    /\ ev.sessionBefore \in ev.closedConns
                    /\ closes[ev.sessionBefore] = 1)
           /\ ev.readLen > 0
                => (/\ ev.readResult = "data"
                    /\ ev.dispatched
                    /\ ev.nulAt = ev.readLen
                    /\ ev.nulAt \in 0..(SizeofLineBuffer - 1)
                    /\ IF ev.failAt = 0
                       THEN /\ mSessionSocket # -1
                            /\ fdtab[mSessionSocket] = ev.sessionBefore
                            /\ ev.sessionBefore \notin ev.closedConns
                       ELSE /\ mSessionSocket = -1
                            /\ ev.sessionBefore \in ev.closedConns)

\* a read filled the buffer up to the byte kept for the terminator and the line ran
C26_Witness ==
    /\ ev.op = "Process"
    /\ ev.sessionRd
    /\ ~ev.sessionErr
    /\ ev.readResult = "data"
    /\ ev.readLen = SizeofLineBuffer - 1
    /\ ev.dispatched
    /\ mSessionSocket # -1

\* C27: in every reachable state a session descriptor exists only if a listen
\* descriptor exists, and a tick without a listen endpoint performs no accept,
\* no read and no close and leaves the daemon's state unchanged.
C27_SessionNeedsListen ==
    /\ mSessionSocket # -1 => mListenSocket # -1
    /\ (ev.op = "Process" /\ ~ev.hadListen)
          => (/\ ev.accept = "none"
              /\ ev.accepted = 0
              /\ ev.readResult = "none"
              /\ ~ev.dispatched
              /\ ev.writes = 0
              /\ ev.closedConns = {}
              /\ ~ev.changed
              /\ mListenSocket = -1
              /\ mSessionSocket = -1)

\* a tick ran after TearDown had closed a daemon that had served a client
C27_Witness ==
    /\ ev.op = "Process"
    /\ ~ev.hadListen
    /\ nAccepted >= 1
    /\ mListenSocket = -1
    /\ mSessionSocket = -1
    /\ alive

\* the descriptors of the process that are the lock file / the listening socket
LockFds == { fd \in DOMAIN fdtab : fdtab[fd] = -2 }
ListenFds == { fd \in DOMAIN fdtab : fdtab[fd] = -1 }

\* C28: between operations of a running daemon the exclusivity lock is held if
\* and only if the listen endpoint exists; SetUp from Idle either acquires the
\* lock and creates the listening endpoint or terminates the process; TearDown
\* closes the session, closes the listen endpoint and releases the lock, so
\* that a following SetUp acquires it again.
C28_LockIffListen ==
    /\ alive => /\ (mDaemonLock # -1) <=> (mListenSocket # -1)
                /\ LockFds = {mDaemonLock} \ {-1}
                /\ ListenFds = {mListenSocket} \ {-1}
    /\ (ev.op = "SetUp" /\ ~ev.hadListen)
          => (~alive \/ (mListenSocket # -1 /\ mDaemonLock # -1 /\ ev.changed))
    /\ ev.op = "TearDown"
          => (/\ mSessionSocket = -1
              /\ mListenSocket = -1
              /\ mDaemonLock = -1
              /\ \A fd \in DOMAIN fdtab : fdtab[fd] = 0
              /\ ev.sessionBefore >= 1 => closes[ev.sessionBefore] = 1)

\* SetUp right after TearDown took the lock and the endpoint again
C28_Witness ==
    /\ ev.op = "SetUp"
    /\ ev.prev = "TearDown"
    /\ ~ev.hadListen
    /\ alive
    /\ mListenSocket # -1
    /\ mDaemonLock # -1
    /\ nAccepted >= 1

\* C29: SetUp called while a listen endpoint exists (pseudo reset) creates no
\* second socket, does not take the lock again, does not bind or listen again,
\* and leaves the listen descriptor and the session descriptor as they were.
C29_PseudoReset ==
    (ev.op = "SetUp" /\ ev.hadListen)
        => (/\ ~ev.changed
            /\ alive
            /\ Cardinality(ListenFds) = 1
            /\ Cardinality(LockFds) = 1
            /\ mListenSocket \in ListenFds
            /\ mDaemonLock \in LockFds
            /\ SessionConn(DState) = ev.sessionBefore
            /\ ev.closedConns = {})

\* SetUp ran again while a client was connected, and the client still is
C29_Witness ==
    /\ ev.op = "SetUp"
    /\ ev.hadListen
    /\ ev.sessionBefore >= 1
    /\ mSessionSocket # -1
    /\ fdtab[mSessionSocket] = ev.sessionBefore
    /\ closes[ev.sessionBefore] = 0

\* the tick's own handling of the session descriptor did not close it
SessionStepKeeps == ~ev.sessionErr /\ ev.readResult \in {"none", "data"} /\ ev.failAt = 0

\* C30: when accept fails, or setting up the accepted descriptor fails, in a
\* tick where the listen descriptor is readable, the existing session is left
\* open and unchanged and the accepted descriptor, if there is one, is closed;
\* the previous session is closed only when the new connection is set up.
C30_FailedAccept ==
    (ev.op = "Process" /\ ~ev.listenErr /\ ev.listenReadable)
        => /\ ev.accept \in AcceptOutcomes
           /\ ev.accept # "ok"
                => (/\ ev.accepted = (IF ev.accept = "accept-fail" THEN 0 ELSE 1)
                    /\ ev.accepted = 1
                          => (/\ nAccepted \in ev.closedConns
                              /\ closes[nAccepted] = 1
                              /\ \A fd \in DOMAIN fdtab : fdtab[fd] # nAccepted)
                    /\ ev.readResult # "none" => ev.readConn = ev.sessionBefore
                    /\ IF ev.sessionBefore = 0
                       THEN mSessionSocket = -1
                       ELSE SessionStepKeeps
                               => (/\ mSessionSocket # -1
                                   /\ fdtab[mSessionSocket] = ev.sessionBefore
                                   /\ closes[ev.sessionBefore] = 0
                                   /\ ev.sessionBefore \notin ev.closedConns))
           /\ (ev.accept = "ok" /\ ev.sessionBefore >= 1)
                => (ev.sessionBefore \in ev.closedConns /\ closes[ev.sessionBefore] = 1)

\* the accepted descriptor could not be set up and was closed; the client that
\* was connected still is
C30_Witness ==
    /\ ev.op = "Process"
    /\ ev.listenReadable
    /\ ev.accept = "setfd-fail"
    /\ ev.sessionBefore >= 1
    /\ mSessionSocket # -1
    /\ fdtab[mSessionSocket] = ev.sessionBefore
    /\ nAccepted \in ev.closedConns

\* C31: in a tick where a new connection replaces an existing session nothing
\* is read from the replaced client and no line is dispatched, also when the
\* replaced descriptor was reported readable, and the new client is not read
\* in that tick: a read happens only on a session the tick started with and
\* that was reported readable.
C31_NoReadOnReplacement ==
    /\ (ev.op = "Process" /\ ev.accept = "ok" /\ ev.sessionBefore >= 1)
          => (/\ ev.readResult = "none"
              /\ ev.readConn = 0
              /\ ~ev.dispatched
              /\ ev.writes = 0
              /\ ~ev.sessionErr
              /\ ev.sessionBefore \in ev.closedConns
              /\ closes[ev.sessionBefore] = 1
              /\ mSessionSocket # -1
              /\ fdtab[mSessionSocket] = ev.latest
              /\ ev.latest = nAccepted
              /\ closes[ev.latest] = 0)
    /\ (ev.op = "Process" /\ ev.readResult # "none" /\ ev.sessionBefore >= 1)
          => (ev.accept # "ok" /\ ev.sessionRd /\ ev.readConn = ev.sessionBefore)

\* a client was replaced in a tick that reported its descriptor readable
C31_Witness ==
    /\ ev.op = "Process"
    /\ ev.accept = "ok"
    /\ ev.sessionBefore >= 1
    /\ ev.sessionRd
    /\ ev.readResult = "none"
    /\ ev.sessionBefore \in ev.closedConns
    /\ mSessionSocket # -1

\* the steps of an instance that come after flock() in createListenSocketOrDie
\* and SetUp, up to the removal of the socket file in TearDown
PastFlock(i) ==
    inst[i].alive /\ inst[i].pc \in {"unlink", "bind", "listen", "listening", "td-unlink"}

\* C32: an instance unlinks and binds the socket path only after it has
\* acquired the lock: whoever is at or past the unlink holds the lock, an
\* instance whose flock() failed has died before the unlink, and the socket
\* path of the instance that holds the lock and has bound it stays its own, in
\* every interleaving of the two instances' steps.
C32_UnlinkBindUnderLock ==
    /\ \A i \in Instances : PastFlock(i) => lockHolder = i
    /\ \A i \in Instances : inst[i].lockFailed => inst[i].pc = "dead"
    /\ \A i \in Instances :
          (inst[i].alive /\ inst[i].pc \in {"listen", "listening"}) => sockFile = i
    /\ ~(PastFlock(1) /\ PastFlock(2))

\* instance 2 tried the lock and died while instance 1, holding the lock, had
\* bound the path and not yet called listen()
C32_Witness ==
    /\ inst[1].alive
    /\ inst[1].pc = "listen"
    /\ sockFile = 1
    /\ lockHolder = 1
    /\ inst[2].lockFailed
    /\ inst[2].pc = "dead"

====
